---- MODULE Spec2Model ----
(***************************************************************************)
(* The indexing and retrieval pipeline of TheLearningAssistant:            *)
(* loaders.py (clean_text, load_documents, process_with_dspy),             *)
(* embeddings.py (build_faiss_index, load_faiss_index),                    *)
(* dspy_pipeline.py (build_faiss_index_with_dspy), chains.py               *)
(* (build_rag_chain), main.py (initialize_qa_chain, the CLI loop) and      *)
(* streamlit_app.py (process_uploaded_file and the script's widgets).      *)
(*                                                                         *)
(* A Python call is modelled by an operator that returns a record whose    *)
(* field exc tells whether the call raised.  The answers of the external   *)
(* services (embedding API, chat model, DSPy) are inputs of the actions.   *)
(***************************************************************************)
EXTENDS Integers, Sequences, FiniteSets, TLC

VARIABLES
    dataDir,    \* the directory DATA_DIR: [exists, files]
    loaded,     \* what the last direct call of load_documents gave
    indexDir,   \* the state of INDEX_DIR on disk
    environ,    \* OPENAI_API_KEY is set in os.environ of the UI process
    ss,         \* st.session_state of the one UI session
    widgets,    \* the values the UI widgets hold between script runs
    out,        \* what the last handler did: its calls, its result, its signals
    rawText,    \* the string handed to clean_text
    inv         \* where each concurrent driver invocation stands

vars == <<dataDir, loaded, indexDir, environ, ss, widgets, out, rawText, inv>>

(***************************************************************************)
(* Bounds of the model.                                                    *)
(***************************************************************************)
MaxFiles == 2        \* files in a directory listing of the loader runs
MaxMessages == 4     \* turns kept in the chat history
MaxUpload == 2       \* files held by the file uploader
MaxDocuments == 2    \* documents accumulated in the session by direct calls
MaxQueries == 1      \* queries typed in one run of the command-line loop
MaxText == 5         \* characters of a string handed to clean_text on its own
MaxIndexDocs == 2    \* documents handed to build_faiss_index on its own
MaxPlans == 1        \* lesson plans generated in one session

(***************************************************************************)
(* Sequence helpers.                                                       *)
(***************************************************************************)
RECURSIVE Join(_, _)
\* sep.join(parts)
Join(parts, sep) ==
    IF parts = <<>> THEN <<>>
    ELSE IF Len(parts) = 1 THEN parts[1]
    ELSE parts[1] \o sep \o Join(Tail(parts), sep)

(***************************************************************************)
(* Characters.  A text is a sequence of characters; each character stands  *)
(* for its class in the regular expressions of clean_text.                 *)
(***************************************************************************)
NonAscii == {"uni"}                 \* [^\x00-\x7F]
Punct    == {"dot", "colon"}        \* [.:;,]
Space    == {"sp", "nl", "tab"}     \* \s
Tick     == {"tilde", "tick"}       \* [~`]
Control  == {"ctl"}                 \* [\x00-\x08\x0E-\x1F\x7F], not whitespace
Plain    == {"a", "b", "n", "bang", "bs"}   \* letters, "!", the backslash

\* re.sub(r'[class]{minLen,}', repl, text): every maximal run of characters
\* of the class that is at least minLen long is replaced by repl.
RECURSIVE RunLen(_, _)
RunLen(text, class) ==
    IF text = <<>> \/ Head(text) \notin class THEN 0
    ELSE 1 + RunLen(Tail(text), class)

RECURSIVE SubRuns(_, _, _, _)
SubRuns(text, class, minLen, repl) ==
    IF text = <<>> THEN <<>>
    ELSE LET k == RunLen(text, class) IN
         IF k >= minLen
         THEN repl \o SubRuns(SubSeq(text, k + 1, Len(text)), class, minLen, repl)
         ELSE IF k > 0
         THEN SubSeq(text, 1, k)
                  \o SubRuns(SubSeq(text, k + 1, Len(text)), class, minLen, repl)
         ELSE <<Head(text)>> \o SubRuns(Tail(text), class, minLen, repl)

\* re.sub(r'\\n+', '\n', text): a backslash followed by one or more letters n
\* becomes one newline character.
RECURSIVE SubBackslashN(_)
SubBackslashN(text) ==
    IF text = <<>> THEN <<>>
    ELSE IF Head(text) = "bs" /\ RunLen(Tail(text), {"n"}) >= 1
    THEN LET k == RunLen(Tail(text), {"n"}) IN
         <<"nl">> \o SubBackslashN(SubSeq(text, k + 2, Len(text)))
    ELSE <<Head(text)>> \o SubBackslashN(Tail(text))

\* the largest i <= k with text[i] = "nl", 0 if there is none
RECURSIVE LastNewline(_, _)
LastNewline(text, k) ==
    IF k = 0 THEN 0
    ELSE IF text[k] = "nl" THEN k ELSE LastNewline(text, k - 1)

\* re.sub(r'\n\s*\n', '\n\n', text): a newline, any whitespace, a newline.
RECURSIVE SubParagraphs(_)
SubParagraphs(text) ==
    IF text = <<>> THEN <<>>
    ELSE IF Head(text) = "nl"
    THEN LET k == RunLen(text, Space)
             j == LastNewline(text, k)
         IN  IF j >= 2
             THEN <<"nl", "nl">> \o SubParagraphs(SubSeq(text, j + 1, Len(text)))
             ELSE <<"nl">> \o SubParagraphs(Tail(text))
    ELSE <<Head(text)>> \o SubParagraphs(Tail(text))

\* str.strip()
RECURSIVE LStrip(_)
LStrip(text) ==
    IF text # <<>> /\ Head(text) \in Space THEN LStrip(Tail(text)) ELSE text

RECURSIVE RStrip(_)
RStrip(text) ==
    IF text # <<>> /\ text[Len(text)] \in Space
    THEN RStrip(SubSeq(text, 1, Len(text) - 1)) ELSE text

Strip(text) == RStrip(LStrip(text))

\* loaders.clean_text
clean_text(text) ==
    LET t1 == SubRuns(text, NonAscii, 1, <<"sp">>)
        t2 == SubRuns(t1, Punct, 2, <<"dot">>)
        t3 == SubRuns(t2, Space, 1, <<"sp">>)
        t4 == SubBackslashN(t3)
        t5 == SubParagraphs(t4)
        t6 == SubRuns(t5, Tick, 2, <<>>)
        t7 == SubRuns(t6, Control, 1, <<>>)
    IN  Strip(t7)

(***************************************************************************)
(* Files and documents.  A file name is <<stem, extension>>.  A file holds *)
(* parts: the lines of a text file, the paragraphs of a word-processor     *)
(* document, the pages of a PDF.  corrupt: extracting it raises.           *)
(***************************************************************************)
Exts == {".txt", ".md", ".docx", ".doc", ".pdf", ".csv"}

SampleParts ==
    { << <<"sp", "nl">> >>,
      << <<"a", "b">> >>,
      << <<"sp">>, <<"a">> >>,
      << <<"tilde", "tilde">>, <<"uni">> >>,
      << <<"b", "sp", "sp", "dot", "dot">> >>,
      << <<>>, <<"ctl">> >> }

Stems == <<"f1", "f2", "f3", "f4">>

\* the files that may stand at place i of a listing
FilesAt(i) ==
    { [name |-> <<Stems[i], e>>, corrupt |-> FALSE, parts |-> p] :
          e \in Exts, p \in SampleParts }
    \cup { [name |-> <<Stems[i], e>>, corrupt |-> TRUE, parts |-> <<>>] : e \in Exts }

endswith(file, exts) == file[2] \in exts

\* pages is <<n>> for a PDF and <<>> where the metadata has no such key
LangchainDocument(text, source, type, path, pages) ==
    [page_content |-> text,
     metadata |-> [source |-> source, type |-> type, path |-> path, pages |-> pages]]

\* the document appended whatever the text is
AppendAlways(text, f, type, data_path, pages) ==
    <<LangchainDocument(text, f.name, type, <<data_path, f.name>>, pages)>>

\* loaders.py 105-113, 126-135, 142-150: "if text.strip():" and the
\* document appended
AppendIfText(text, f, type, data_path, pages) ==
    IF Strip(text) # <<>>
    THEN <<LangchainDocument(text, f.name, type, <<data_path, f.name>>, pages)>>
    ELSE <<>>

\* loaders.py 100-113: the .docx/.doc branch of the loop body
LoadDocx(data_path, f) ==
    AppendIfText(clean_text(Join(f.parts, <<"nl">>)), f, "docx", data_path, <<>>)

\* loaders.py 118-122: the texts of the pages that extract_text gave, cleaned
RECURSIVE PdfTextParts(_)
PdfTextParts(pages) ==
    IF pages = <<>> THEN <<>>
    ELSE IF Head(pages) # <<>>
    THEN <<clean_text(Head(pages))>> \o PdfTextParts(Tail(pages))
    ELSE PdfTextParts(Tail(pages))

\* loaders.py 115-135: the .pdf branch
LoadPdf(data_path, f) ==
    AppendIfText(Join(PdfTextParts(f.parts), <<"nl", "nl">>), f, "pdf", data_path,
                 <<Len(f.parts)>>)

\* loaders.py 137-150: the .txt/.md branch
LoadTxt(data_path, f) ==
    AppendIfText(clean_text(Join(f.parts, <<"nl">>)), f, "text", data_path, <<>>)

\* the loop body with a third branch that knows ".txt" only
LoadFileTxtOnly(data_path, f) ==
    IF endswith(f.name, {".docx", ".doc"})
    THEN IF f.corrupt THEN <<>> ELSE LoadDocx(data_path, f)
    ELSE IF endswith(f.name, {".pdf"})
    THEN IF f.corrupt THEN <<>> ELSE LoadPdf(data_path, f)
    ELSE IF endswith(f.name, {".txt"})
    THEN IF f.corrupt THEN <<>> ELSE LoadTxt(data_path, f)
    ELSE <<>>

\* loaders.py 96-154: one turn of the loop, the documents it appends.  An
\* exception of the extraction is caught at 152 and the file is skipped.
LoadFile(data_path, f) ==
    IF endswith(f.name, {".docx", ".doc"})
    THEN IF f.corrupt THEN <<>> ELSE LoadDocx(data_path, f)
    ELSE IF endswith(f.name, {".pdf"})
    THEN IF f.corrupt THEN <<>> ELSE LoadPdf(data_path, f)
    ELSE IF endswith(f.name, {".txt", ".md"})
    THEN IF f.corrupt THEN <<>> ELSE LoadTxt(data_path, f)
    ELSE <<>>

RECURSIVE LoadLoop(_, _)
\* the loop with the try around it instead of inside it: the first file
\* whose extraction raises ends the scan
LoadLoopAbort(data_path, listing) ==
    IF listing = <<>> THEN <<>>
    ELSE IF Head(listing).corrupt /\ endswith(Head(listing).name, Exts \ {".csv"})
    THEN <<>>
    ELSE LoadFile(data_path, Head(listing)) \o LoadLoop(data_path, Tail(listing))

\* loaders.py 95-154: the loop over os.listdir(data_path)
LoadLoop(data_path, listing) ==
    IF listing = <<>> THEN <<>>
    ELSE LoadFile(data_path, Head(listing)) \o LoadLoop(data_path, Tail(listing))

\* loaders.process_with_dspy.  IEPPipeline() raises when the pipeline cannot
\* be set up (pipelineOk false).  IEPPipeline has no method forward, so line
\* 27 raises AttributeError for every document, the handler at 55 catches
\* it and the original document is appended.
process_with_dspy(documents, pipelineOk) ==
    IF ~pipelineOk THEN [exc |-> TRUE, docs |-> <<>>]
    ELSE [exc |-> FALSE, docs |-> [i \in DOMAIN documents |-> documents[i]]]

\* list.remove(x): the list without the first element equal to x
RECURSIVE RemoveFirst(_, _)
RemoveFirst(s, x) ==
    IF s = <<>> THEN <<>>
    ELSE IF Head(s) = x THEN Tail(s) ELSE <<Head(s)>> \o RemoveFirst(Tail(s), x)

\* loaders.py 169-172: the loop removes from the list it iterates over, so
\* the element after a removed one is not visited.
RECURSIVE VerifyLoop(_, _)
VerifyLoop(docs, i) ==
    IF i > Len(docs) THEN docs
    ELSE IF docs[i].page_content = <<>>
    THEN VerifyLoop(RemoveFirst(docs, docs[i]), i + 1)
    ELSE VerifyLoop(docs, i + 1)

\* loaders.py 159-174 after process_with_dspy returned or raised
LoadAfterDspy(r) ==
    IF r.exc THEN [exc |-> TRUE, docs |-> <<>>]
    ELSE [exc |-> FALSE, docs |-> VerifyLoop(r.docs, 1)]

\* loaders.py 156-174: what follows the loop over the files
LoadAfterLoop(docs, use_dspy, pipelineOk) ==
    IF use_dspy /\ docs # <<>>
    THEN LoadAfterDspy(process_with_dspy(docs, pipelineOk))
    ELSE [exc |-> FALSE, docs |-> VerifyLoop(docs, 1)]

\* loaders.load_documents.  dir is the directory at data_path:
\* [exists, files].
load_documents(data_path, dir, use_dspy, pipelineOk) ==
    IF ~dir.exists THEN [exc |-> FALSE, docs |-> <<>>]
    ELSE LoadAfterLoop(LoadLoop(data_path, dir.files), use_dspy, pipelineOk)

\* the files of the drivers: those of DATA_DIR and those the user uploads
File(stem, ext, parts) == [name |-> <<stem, ext>>, corrupt |-> FALSE, parts |-> parts]

GoodTxt == File("f1", ".txt", << <<"a", "b">> >>)
GoodPdf == File("f2", ".pdf", << <<"sp">>, <<"a">> >>)
BlankTxt == File("f1", ".txt", << <<"sp", "nl">> >>)
UpTxt   == File("u1", ".txt", << <<"a", "sp", "sp", "b", "dot", "dot">> >>)
UpBlank == File("u2", ".txt", << <<"uni">> >>)

\* an uploaded PDF of one page
UpPdf == File("u3", ".pdf", << <<"a", "sp", "a">> >>)

\* the files a user uploads
UploadedFiles == {UpTxt, UpBlank, UpPdf}

\* what load_documents gives for each of them, uploaded alone (the same
\* whenever it is uploaded)
UploadedDocuments ==
    [f \in UploadedFiles |->
        load_documents("tmp", [exists |-> TRUE, files |-> <<f>>], FALSE, TRUE)]

\* streamlit_app.py 49-60: the file is written alone into a temporary
\* directory and loaded from there (use_dspy is not passed on)
LoadUploaded(file) ==
    IF file \in UploadedFiles THEN UploadedDocuments[file]
    ELSE load_documents("tmp", [exists |-> TRUE, files |-> <<file>>], FALSE, TRUE)

(***************************************************************************)
(* The index store.  INDEX_DIR on disk is [exists, kind, entries]: kind is *)
(* "none" (no index file), "corrupt" (a file FAISS cannot read) or "index" *)
(* (a saved index holding entries).  A vector store handle and a chain are *)
(* [held, entries]; held is FALSE for Python's None.                       *)
(***************************************************************************)
MissingDir == [exists |-> FALSE, kind |-> "none", entries |-> <<>>, vectors |-> <<>>]

chunk_size == 1000
chunk_overlap == 200

NoStore == [held |-> FALSE, entries |-> <<>>, vectors |-> <<>>, model |-> "none"]

NoChain == [held |-> FALSE, entries |-> <<>>]

\* embeddings.py 14: the separators of the RecursiveCharacterTextSplitter,
\* tried in this order; the last one, the empty string, cuts between any
\* two characters
Separators ==
    << <<"nl", "nl">>, <<"nl">>, <<"dot">>, <<"bang">>, <<"qmark">>, <<"sp">>, <<>> >>

\* the first place of the run of characters c that holds place i
RunStart(text, i, c) ==
    CHOOSE j \in 1..i : (\A k \in j..i : text[k] = c) /\ (j = 1 \/ text[j - 1] # c)

\* the places where the separator matches, found from left to right
\* without overlap as re.split finds them
MatchesAt(text, sep) ==
    IF Len(sep) = 1
    THEN {i \in DOMAIN text : text[i] = sep[1]}
    ELSE {i \in 1..(Len(text) - 1) :
              /\ text[i] = sep[1] /\ text[i + 1] = sep[2]
              /\ (i - RunStart(text, i, sep[1])) % 2 = 0}

\* the n-th smallest element of a set of numbers
Nth(S, n) == CHOOSE p \in S : Cardinality({q \in S : q <= p}) = n

\* the pieces that start at the places starts
PiecesFrom(text, starts) ==
    [n \in 1..Cardinality(starts) |->
        SubSeq(text, Nth(starts, n),
               IF n = Cardinality(starts) THEN Len(text) ELSE Nth(starts, n + 1) - 1)]

\* _split_text_with_regex with keep_separator: the text is cut before every
\* match of the separator, which stays at the start of the piece after it
SplitKeep(text, sep) ==
    IF text = <<>> THEN <<>> ELSE PiecesFrom(text, {1} \cup MatchesAt(text, sep))

RECURSIVE Concat(_)
Concat(parts) == IF parts = <<>> THEN <<>> ELSE Head(parts) \o Concat(Tail(parts))

RECURSIVE Total(_)
Total(parts) == IF parts = <<>> THEN 0 ELSE Len(Head(parts)) + Total(Tail(parts))

\* _join_docs: the pieces joined and stripped; nothing if that is empty
JoinDocs(current_doc) ==
    IF Strip(Concat(current_doc)) = <<>> THEN <<>> ELSE <<Strip(Concat(current_doc))>>

\* _merge_splits, the while loop: pieces leave the front of current_doc
\* until what stays is within chunk_overlap and leaves room for the next
RECURSIVE PopFront(_, _)
PopFront(current_doc, len) ==
    IF \/ Total(current_doc) > chunk_overlap
       \/ Total(current_doc) + len > chunk_size /\ Total(current_doc) > 0
    THEN PopFront(Tail(current_doc), len)
    ELSE current_doc

\* _merge_splits: the pieces are put together in chunks within chunk_size
RECURSIVE MergeSplits(_, _, _)
MergeSplits(splits, current_doc, docs) ==
    IF splits = <<>> THEN docs \o JoinDocs(current_doc)
    ELSE IF Total(current_doc) + Len(Head(splits)) > chunk_size /\ current_doc # <<>>
    THEN MergeSplits(Tail(splits),
                     Append(PopFront(current_doc, Len(Head(splits))), Head(splits)),
                     docs \o JoinDocs(current_doc))
    ELSE MergeSplits(Tail(splits), Append(current_doc, Head(splits)), docs)

\* _split_text with the empty separator: the pieces are the characters, and
\* _merge_splits puts them together in windows of chunk_size, each starting
\* chunk_size - chunk_overlap after the one before
\* the text as one chunk whatever its length
WindowsWhole(text) == JoinDocs(<<text>>)

RECURSIVE Windows(_)
Windows(text) ==
    IF Len(text) <= chunk_size THEN JoinDocs(<<text>>)
    ELSE JoinDocs(<<SubSeq(text, 1, chunk_size)>>)
             \o Windows(SubSeq(text, chunk_size - chunk_overlap + 1, Len(text)))

\* the place in separators of the first one that is empty or found in text
FirstSeparator(text, separators) ==
    CHOOSE k \in DOMAIN separators :
        /\ separators[k] = <<>> \/ MatchesAt(text, separators[k]) # {}
        /\ \A m \in 1..(k - 1) :
               separators[m] # <<>> /\ MatchesAt(text, separators[m]) = {}

RECURSIVE SplitWith(_, _)
RECURSIVE SplitLoop(_, _, _, _)
\* _split_text, the loop over the pieces: a piece shorter than chunk_size
\* waits in good_splits to be merged, a longer one is split with the
\* separators that are left
SplitLoop(splits, new_separators, good_splits, final_chunks) ==
    IF splits = <<>>
    THEN final_chunks \o MergeSplits(good_splits, <<>>, <<>>)
    ELSE IF Len(Head(splits)) < chunk_size
    THEN SplitLoop(Tail(splits), new_separators, Append(good_splits, Head(splits)),
                   final_chunks)
    ELSE SplitLoop(Tail(splits), new_separators, <<>>,
                   final_chunks \o MergeSplits(good_splits, <<>>, <<>>)
                       \o (IF new_separators = <<>> THEN <<Head(splits)>>
                           ELSE SplitWith(Head(splits), new_separators)))

\* RecursiveCharacterTextSplitter._split_text
SplitWith(text, separators) ==
    IF separators[FirstSeparator(text, separators)] = <<>>
    THEN Windows(text)
    ELSE SplitLoop(SplitKeep(text, separators[FirstSeparator(text, separators)]),
                   SubSeq(separators, FirstSeparator(text, separators) + 1,
                          Len(separators)),
                   <<>>, <<>>)

\* RecursiveCharacterTextSplitter.split_text on one text
SplitText(text) == SplitWith(text, Separators)

\* embeddings.py 10-17: split_documents, each chunk keeps its document's
\* metadata
RECURSIVE split_documents(_)
split_documents(documents) ==
    IF documents = <<>> THEN <<>>
    ELSE LET d == Head(documents)
             pieces == SplitText(d.page_content)
         IN  [i \in DOMAIN pieces |->
                 [page_content |-> pieces[i], metadata |-> d.metadata]]
             \o split_documents(Tail(documents))

\* os.makedirs(INDEX_DIR, exist_ok=True)
makedirs(dir) == [dir EXCEPT !.exists = TRUE]

\* shutil.rmtree(INDEX_DIR)
rmtree(dir) == MissingDir

\* embeddings.py 25: the model of the embeddings build_faiss_index makes
BuildModel == "text-embedding-ada-002"

\* another model of the embedding service
OtherModel == "text-embedding-3-small"

\* embeddings.py 41: load_faiss_index names no model, OpenAIEmbeddings then
\* takes its default
DefaultModel == "text-embedding-ada-002"

\* the vector a model of the embedding service gives a text; the service
\* is outside the program, all that matters here is that a model gives a
\* text one vector and that two models give different ones
Embed(model, text) ==
    IF model = "text-embedding-ada-002" THEN Len(text) ELSE 2 * chunk_size - Len(text)

\* FAISS.from_documents(texts, embeddings): the store holds the chunks, their
\* vectors and the embeddings that will embed the queries
from_documents(texts, model) ==
    [held |-> TRUE, entries |-> texts,
     vectors |-> [i \in DOMAIN texts |-> Embed(model, texts[i].page_content)],
     model |-> model]

\* vectorstore.save_local(persist_directory): the chunks and their vectors
\* are written, the embeddings are not
save_local(dir, vectorstore) ==
    [exists |-> TRUE, kind |-> "index", entries |-> vectorstore.entries,
     vectors |-> vectorstore.vectors]

\* FAISS.load_local(persist_directory, embeddings)
load_local(dir, model) ==
    [held |-> TRUE, entries |-> dir.entries, vectors |-> dir.vectors, model |-> model]

Distance(v, w) == IF v < w THEN w - v ELSE v - w

\* the places of the store in the order of the distance of their vectors
\* to the vector of the query, the earlier place first among equals
Nearest(vectorstore, query) ==
    [n \in DOMAIN vectorstore.vectors |->
        CHOOSE i \in DOMAIN vectorstore.vectors :
            Cardinality({j \in DOMAIN vectorstore.vectors :
                \/ Distance(vectorstore.vectors[j], Embed(vectorstore.model, query))
                       < Distance(vectorstore.vectors[i], Embed(vectorstore.model, query))
                \/ /\ Distance(vectorstore.vectors[j], Embed(vectorstore.model, query))
                          = Distance(vectorstore.vectors[i], Embed(vectorstore.model, query))
                   /\ j < i}) = n - 1]

\* vectorstore.similarity_search(query, k): the texts of the k nearest chunks
similarity_search(vectorstore, query, k) ==
    [n \in 1..(IF Len(vectorstore.vectors) < k THEN Len(vectorstore.vectors) ELSE k) |->
        vectorstore.entries[Nearest(vectorstore, query)[n]].page_content]

BuildOutcomes == {"ok", "embed_documents", "embed_query"}

\* embeddings.py 20-35: build_faiss_index after the split
BuildFromTexts(texts, dir, keyOk, outcome) ==
    IF ~keyOk
    THEN [exc |-> TRUE, ret |-> NoStore, dir |-> dir, trace |-> <<"split">>]
    ELSE IF outcome = "embed_documents" \/ texts = <<>>
    THEN [exc |-> TRUE, ret |-> NoStore, dir |-> dir,
          trace |-> <<"split", "embed_documents">>]
    ELSE IF outcome = "embed_query"
    THEN [exc |-> TRUE, ret |-> NoStore,
          dir |-> save_local(dir, from_documents(texts, BuildModel)),
          trace |-> <<"split", "embed_documents", "save_local", "embed_query">>]
    ELSE [exc |-> FALSE, ret |-> from_documents(texts, BuildModel),
          dir |-> save_local(dir, from_documents(texts, BuildModel)),
          trace |-> <<"split", "embed_documents", "save_local", "embed_query">>]

\* embeddings.build_faiss_index.  keyOk: OPENAI_API_KEY is set.  outcome:
\* which call of the embedding service fails, if any: the embedding of the
\* chunks in FAISS.from_documents (line 28) or the embedding of the query
\* of the test retrieval (line 32), which comes after save_local.
build_faiss_index(documents, dir, keyOk, outcome) ==
    BuildFromTexts(split_documents(documents), dir, keyOk, outcome)

\* embeddings.load_faiss_index: FAISS.load_local raises when the directory
\* holds no readable index; nothing catches it.
load_faiss_index(dir, keyOk) ==
    IF ~keyOk \/ ~dir.exists \/ dir.kind # "index"
    THEN [exc |-> TRUE, ret |-> NoStore]
    ELSE [exc |-> FALSE, ret |-> load_local(dir, DefaultModel)]

\* dspy_pipeline.py 52-64: the enhanced content built around the original
Enhanced(text) ==
    <<"nl", "Original Content:", "nl">> \o text
        \o <<"nl", "Key Insights:", "nl", "Important Entities:", "nl", "Summary:", "nl">>

\* IEPPipeline.process_documents: extractFail is the set of places whose
\* extraction raises; those keep the original document.
process_documents(documents, extractFail) ==
    [i \in DOMAIN documents |->
        IF i \in extractFail THEN documents[i]
        ELSE [page_content |-> Enhanced(documents[i].page_content),
              metadata |-> documents[i].metadata]]

\* the result r of a call, with the calls made before it
Traced(prefix, r) == [r EXCEPT !.trace = prefix \o @]

\* dspy_pipeline.py 111-117: the build a inside the try block returned or
\* raised; the handler at 113 runs the build again on the original documents
DspyAfterBuild(a, documents, keyOk, o2) ==
    IF ~a.exc
    THEN Traced(<<"IEPPipeline", "process_documents">>, a)
    ELSE Traced(<<"IEPPipeline", "process_documents">> \o a.trace \o <<"except">>,
                build_faiss_index(documents, a.dir, keyOk, o2))

\* dspy_pipeline.build_faiss_index_with_dspy: the try block holds the
\* pipeline set-up, the enhancement and the build.
build_faiss_index_with_dspy(documents, dir, keyOk, pipelineOk, extractFail, o1, o2) ==
    IF ~keyOk \/ ~pipelineOk
    THEN Traced(<<"IEPPipeline", "except">>, build_faiss_index(documents, dir, keyOk, o2))
    ELSE DspyAfterBuild(
             build_faiss_index(documents \o process_documents(documents, extractFail),
                               dir, keyOk, o1),
             documents, keyOk, o2)

ChainOutcomes == {"ok", "embed_query", "llm"}

\* the keyword parameters chains.build_rag_chain accepts besides vectorstore
build_rag_chain_keywords == {}

\* chains.build_rag_chain called with the keyword arguments kwargs: a
\* keyword the signature does not have is a TypeError.  outcome: the test
\* retrieval's embedding (line 10) or the test call of the chain (line 56)
\* fails.
build_rag_chain(vectorstore, kwargs, keyOk, outcome) ==
    IF ~(kwargs \subseteq build_rag_chain_keywords)
    THEN [exc |-> TRUE, ret |-> NoChain, trace |-> <<"TypeError">>]
    ELSE IF outcome = "embed_query"
    THEN [exc |-> TRUE, ret |-> NoChain, trace |-> <<"similarity_search">>]
    ELSE IF ~keyOk
    THEN [exc |-> TRUE, ret |-> NoChain, trace |-> <<"similarity_search", "ChatOpenAI">>]
    ELSE IF outcome = "llm"
    THEN [exc |-> TRUE, ret |-> NoChain,
          trace |-> <<"similarity_search", "ChatOpenAI", "llm_call">>]
    ELSE [exc |-> FALSE, ret |-> [held |-> TRUE, entries |-> vectorstore.entries],
          trace |-> <<"similarity_search", "ChatOpenAI", "llm_call">>]


(***************************************************************************)
(* main.py                                                                 *)
(***************************************************************************)
\* what the external services answer during one call of a driver: whether
\* the DSPy pipeline can be set up, the documents whose extraction fails,
\* the outcome of the first and of the second index build, the outcome of
\* the chain construction
Oracles ==
    [pipelineOk : BOOLEAN, extractFail : {{}, {1}}, o1 : BuildOutcomes,
     o2 : BuildOutcomes, chain : ChainOutcomes]

\* the oracles of a call with the key set: a service that is not asked
\* answers "ok" (no second build after a first that succeeded, no
\* extraction without a pipeline, no chain without an index)
OracleChoices(use_dspy) ==
    { o \in Oracles :
        /\ ~use_dspy => o.pipelineOk /\ o.extractFail = {} /\ o.o2 = "ok"
        /\ o.pipelineOk /\ o.o1 = "ok" => o.o2 = "ok"
        /\ ~o.pipelineOk => o.extractFail = {} /\ o.o1 = "ok"
        /\ o.chain # "ok" => o.o2 = "ok" /\ (o.pipelineOk => o.o1 = "ok") }

AllOk == [pipelineOk |-> TRUE, extractFail |-> {}, o1 |-> "ok", o2 |-> "ok", chain |-> "ok"]

\* without the key every service call fails where it is set up, whatever
\* the service would answer
OraclesFor(use_dspy, keyOk) == IF keyOk THEN OracleChoices(use_dspy) ELSE {AllOk}

\* the result of initialize_qa_chain: the chain returned (NoChain for
\* None), DATA_DIR and INDEX_DIR afterwards, the calls made
InitResult(ret, data, dir, trace) ==
    [ret |-> ret, data |-> data, dir |-> dir, trace |-> trace]

\* main.py 93-102 after build_rag_chain returned or raised
InitAfterChain(c, data, dir, trace) ==
    IF c.exc
    THEN InitResult(NoChain, data, dir,
                    trace \o c.trace \o <<"log:Error initializing QA chain">>)
    ELSE InitResult(c.ret, data, dir,
                    trace \o c.trace \o <<"log:Successfully initialized QA chain">>)

\* main.py 87-98: step 5, the chain is built with the keyword model_name
InitChain(vectorstore, data, dir, keyOk, orc, trace) ==
    InitAfterChain(build_rag_chain(vectorstore, {"model_name"}, keyOk, orc.chain),
                   data, dir, trace \o <<"build_rag_chain">>)

\* main.py 81-98 after the build returned or raised
InitAfterBuild(b, data, keyOk, orc, trace) ==
    IF b.exc
    THEN InitResult(NoChain, data, b.dir,
                    trace \o b.trace \o <<"log:Error initializing QA chain">>)
    ELSE InitChain(b.ret, data, b.dir, keyOk, orc, trace \o b.trace)

\* the build reached whatever load_documents returned
InitAfterLoadUnchecked(ld, use_dspy, data, dir, keyOk, orc, trace) ==
    IF ld.exc
    THEN InitResult(NoChain, data, dir, trace \o <<"log:Error initializing QA chain">>)
    ELSE InitAfterBuild(
             IF use_dspy
             THEN build_faiss_index_with_dspy(ld.docs, dir, keyOk, orc.pipelineOk,
                                              orc.extractFail, orc.o1, orc.o2)
             ELSE build_faiss_index(ld.docs, dir, keyOk, orc.o1),
             data, keyOk, orc, trace \o <<"build">>)

\* main.py 65-98 after load_documents returned or raised
InitAfterLoad(ld, use_dspy, data, dir, keyOk, orc, trace) ==
    IF ld.exc
    THEN InitResult(NoChain, data, dir, trace \o <<"log:Error initializing QA chain">>)
    ELSE IF ld.docs = <<>>
    THEN InitResult(NoChain, data, dir, trace \o <<"log:No documents were loaded!">>)
    ELSE InitAfterBuild(
             IF use_dspy
             THEN build_faiss_index_with_dspy(ld.docs, dir, keyOk, orc.pipelineOk,
                                              orc.extractFail, orc.o1, orc.o2)
             ELSE build_faiss_index(ld.docs, dir, keyOk, orc.o1),
             data, keyOk, orc, trace \o <<"build">>)

\* main.py 55-85: step 4, the index is built anew
InitBuild(use_dspy, data, dir, keyOk, orc, trace) ==
    InitAfterLoad(load_documents("data", data, use_dspy, keyOk /\ orc.pipelineOk),
                  use_dspy, data, makedirs(rmtree(dir)), keyOk, orc,
                  trace \o <<"rmtree", "makedirs", "load_documents">>)

\* main.py 52-98 after load_faiss_index returned or raised
InitAfterIndexLoad(l, use_dspy, data, dir, keyOk, orc) ==
    IF l.exc
    THEN InitResult(NoChain, data, dir,
                    <<"load_faiss_index", "log:Error initializing QA chain">>)
    ELSE IF l.ret.held
    THEN InitChain(l.ret, data, dir, keyOk, orc, <<"load_faiss_index">>)
    ELSE InitBuild(use_dspy, data, dir, keyOk, orc, <<"load_faiss_index">>)

\* main.initialize_qa_chain(use_dspy, rebuild_index): data and dir are
\* DATA_DIR and INDEX_DIR, both made to exist at lines 35-36.
initialize_qa_chain(use_dspy, rebuild_index, data, dir, keyOk, orc) ==
    IF ~rebuild_index /\ makedirs(dir).exists
    THEN InitAfterIndexLoad(load_faiss_index(makedirs(dir), keyOk), use_dspy,
                            [data EXCEPT !.exists = TRUE], makedirs(dir), keyOk, orc)
    ELSE InitBuild(use_dspy, [data EXCEPT !.exists = TRUE], makedirs(dir), keyOk, orc, <<>>)

\* one call of the chain on a query: the retrieval and the chat model
QueryOutcomes == {"ok", "fail"}

\* main.py 172-185: the loop over the queries typed until 'quit'
RECURSIVE CliLoop(_, _)
CliLoop(chain, answers) ==
    IF answers = <<>> THEN <<>>
    ELSE (IF Head(answers) = "ok"
          THEN <<"cli:invoke(chain)", "print:Answer">>
          ELSE <<"cli:invoke(chain)", "cli:raise", "log:Error processing query">>)
         \o CliLoop(chain, Tail(answers))

\* main.py 168-187 after initialize_qa_chain returned
MainAfterInit(r, answers) ==
    IF r.ret.held
    THEN Traced(r.trace \o <<"log:System initialized successfully">>,
                [r EXCEPT !.trace = CliLoop(r.ret, answers)])
    ELSE [r EXCEPT !.trace = @ \o <<"log:Failed to initialize system">>]

\* main.py 160-187: one run of the program; answers are the outcomes of
\* the queries the user types before 'quit'
main(data, dir, keyOk, orc, answers) ==
    MainAfterInit(initialize_qa_chain(FALSE, FALSE, data, dir, keyOk, orc), answers)

(***************************************************************************)
(* streamlit_app.py.  The script runs from top to bottom once per user     *)
(* interaction (the event); st.experimental_rerun() ends the run and       *)
(* starts the script again with no event.                                  *)
(***************************************************************************)
\* what the services answer while one uploaded file is processed: the
\* outcome of build_faiss_index and of build_rag_chain
FileOutcomes ==
    { <<"ok", "ok">>, <<"embed_documents", "ok">>, <<"embed_query", "ok">>,
      <<"ok", "llm">> }

\* what process_uploaded_file gives: whether it raised, its result, the
\* session and INDEX_DIR afterwards, the documents loaded, the calls made
UploadResult(exc, ret, sess, dir, ndocs, trace) ==
    [exc |-> exc, ret |-> ret, ss |-> sess, dir |-> dir, ndocs |-> ndocs,
     trace |-> trace]

\* streamlit_app.py 76-77 after build_rag_chain returned or raised
UploadAfterChain(c, b, sess, ndocs, trace) ==
    IF c.exc
    THEN UploadResult(TRUE, FALSE, sess, b.dir, ndocs, trace \o c.trace)
    ELSE UploadResult(FALSE, TRUE, [sess EXCEPT !.chain = c.ret], b.dir, ndocs,
                      trace \o c.trace \o <<"chain_set">>)

\* streamlit_app.py 73-78 after build_faiss_index returned or raised
UploadAfterBuild(b, sess, ndocs, keyOk, fo, trace) ==
    IF b.exc
    THEN UploadResult(TRUE, FALSE, sess, b.dir, ndocs, trace \o b.trace)
    ELSE UploadAfterChain(build_rag_chain(b.ret, {}, keyOk, fo[2]), b, sess, ndocs,
                          trace \o b.trace \o <<"build_rag_chain">>)

\* streamlit_app.py 61-78 after load_documents returned
UploadAfterLoad(ld, sess, dir, keyOk, fo) ==
    IF ld.docs = <<>>
    THEN UploadResult(FALSE, FALSE, sess, dir, 0,
                      <<"load_documents", "st.error:No text could be extracted">>)
    ELSE UploadAfterBuild(
             build_faiss_index(ld.docs, makedirs(IF dir.exists THEN rmtree(dir) ELSE dir),
                               keyOk, fo[1]),
             [sess EXCEPT !.documents = @ \o ld.docs], Len(ld.docs), keyOk, fo,
             <<"load_documents", "rmtree", "makedirs", "build">>)

\* streamlit_app.process_uploaded_file: the file is written alone into a
\* temporary directory and loaded from there (use_dspy is not passed on)
process_uploaded_file(file, sess, dir, keyOk, fo) ==
    UploadAfterLoad(LoadUploaded(file), sess, dir, keyOk, fo)

\* streamlit_app.py 146-151: the status shown for one file
UploadStatus(r) ==
    IF r.exc THEN "error:Error processing"
    ELSE IF r.ret THEN "success:Successfully processed"
    ELSE "error:Failed to process"

UploadCall(file, r) ==
    [file |-> file.name, exc |-> r.exc, ret |-> r.ret, ndocs |-> r.ndocs,
     trace |-> r.trace, status |-> UploadStatus(r)]

\* streamlit_app.py 140-151: the loop over the uploaded files; calls holds
\* one record per call of process_uploaded_file
RECURSIVE UploadLoop(_, _, _, _, _, _)
UploadNext(r, files, fos, keyOk, calls) ==
    UploadLoop(Tail(files), Tail(fos), r.ss, r.dir, keyOk,
               Append(calls, UploadCall(Head(files), r)))

UploadLoop(files, fos, sess, dir, keyOk, calls) ==
    IF files = <<>> THEN [ss |-> sess, dir |-> dir, calls |-> calls]
    ELSE UploadNext(process_uploaded_file(Head(files), sess, dir, keyOk, Head(fos)),
                    files, fos, keyOk, calls)

\* streamlit_app.py 137, 153-157: processing_success is set to True and
\* never changed
SidebarDone(u, processing_success) ==
    IF processing_success
    THEN [ss |-> [u.ss EXCEPT !.documents_processed = TRUE], dir |-> u.dir,
          calls |-> u.calls,
          trace |-> <<"success:All documents processed successfully!">>]
    ELSE [ss |-> u.ss, dir |-> u.dir, calls |-> u.calls,
          trace |-> <<"error:Error processing some documents.">>]

\* the sidebar that processes the uploads it finds whatever the flag says
\* (the services answer where no answer was drawn for a file)
SidebarIgnoringFlag(sess, dir, keyOk, wid, fos) ==
    IF wid.uploaded_files # <<>>
    THEN SidebarDone(UploadLoop(wid.uploaded_files,
                                IF Len(fos) = Len(wid.uploaded_files) THEN fos
                                ELSE [i \in DOMAIN wid.uploaded_files |-> <<"ok", "ok">>],
                                sess, dir, keyOk, <<>>), TRUE)
    ELSE [ss |-> sess, dir |-> dir, calls |-> <<>>, trace |-> <<>>]

\* streamlit_app.py 136-157: the sidebar's processing of the uploads
Sidebar(sess, dir, keyOk, wid, fos) ==
    IF wid.uploaded_files # <<>> /\ ~sess.documents_processed
    THEN SidebarDone(UploadLoop(wid.uploaded_files, fos, sess, dir, keyOk, <<>>), TRUE)
    ELSE [ss |-> sess, dir |-> dir, calls |-> <<>>, trace |-> <<>>]

\* the button that clears the conversation with the documents
ClearDocumentsAndChat(sess, dir) ==
    [ss |-> [sess EXCEPT !.documents_processed = FALSE, !.chain = NoChain,
                         !.documents = <<>>, !.iep_results = <<>>, !.messages = <<>>],
     dir |-> IF dir.exists THEN rmtree(dir) ELSE dir]

\* streamlit_app.py 159-167: the Clear Documents button
ClearDocuments(sess, dir) ==
    [ss |-> [sess EXCEPT !.documents_processed = FALSE, !.chain = NoChain,
                         !.documents = <<>>, !.iep_results = <<>>],
     dir |-> IF dir.exists THEN rmtree(dir) ELSE dir]

\* streamlit_app.py 202-241: the Document Q&A tab.  stop: the run ends
\* here, because st.error("Full error:", exc_info=True) at 239 raises
\* TypeError inside the handler.
QATab(sess, wid, qa) ==
    IF ~wid.query THEN [trace |-> <<>>, stop |-> FALSE]
    ELSE IF sess.chain.held
    THEN IF qa = "ok"
         THEN [trace |-> <<"qa:invoke(chain)", "qa:response">>, stop |-> FALSE]
         ELSE [trace |-> <<"qa:invoke(chain)", "qa:raise",
                           "qa:st.error:Error generating response", "qa:TypeError">>,
               stop |-> TRUE]
    ELSE [trace |-> <<"qa:st.warning:Please upload documents first!">>, stop |-> FALSE]

Message(role, content) == [role |-> role, content |-> content]

\* the chat that shows the empty result as the answer when the chain raises
ChatAnswerSwallowed(sess, chat) ==
    IF ~sess.chain.held
    THEN [ss |-> [sess EXCEPT !.messages =
                     Append(@, Message("assistant", "Error generating response"))],
          trace |-> <<"chat:invoke(None)", "chat:st.error:Error generating response">>]
    ELSE IF chat = "ok"
    THEN [ss |-> [sess EXCEPT !.messages = Append(@, Message("assistant", "answer"))],
          trace |-> <<"chat:invoke(chain)", "chat:response">>]
    ELSE [ss |-> [sess EXCEPT !.messages = Append(@, Message("assistant", ""))],
          trace |-> <<"chat:invoke(chain)", "chat:raise", "chat:response">>]

\* the chat whose handler shows the error without adding it to the
\* conversation
ChatAnswerDropped(sess, chat) ==
    IF ~sess.chain.held
    THEN [ss |-> sess,
          trace |-> <<"chat:invoke(None)", "chat:st.error:Error generating response">>]
    ELSE IF chat = "ok"
    THEN [ss |-> [sess EXCEPT !.messages = Append(@, Message("assistant", "answer"))],
          trace |-> <<"chat:invoke(chain)", "chat:response">>]
    ELSE [ss |-> sess,
          trace |-> <<"chat:invoke(chain)", "chat:raise",
                      "chat:st.error:Error generating response">>]

\* streamlit_app.py 255-286: the prompt is accepted and the chain called; a
\* chain that raises leaves raise in the trace, before what the handler does
ChatAnswer(sess, chat) ==
    IF ~sess.chain.held
    THEN [ss |-> [sess EXCEPT !.messages =
                     Append(@, Message("assistant", "Error generating response"))],
          trace |-> <<"chat:invoke(None)", "chat:st.error:Error generating response">>]
    ELSE IF chat = "ok"
    THEN [ss |-> [sess EXCEPT !.messages = Append(@, Message("assistant", "answer"))],
          trace |-> <<"chat:invoke(chain)", "chat:response">>]
    ELSE [ss |-> [sess EXCEPT !.messages =
                     Append(@, Message("assistant", "Error generating response"))],
          trace |-> <<"chat:invoke(chain)", "chat:raise",
                      "chat:st.error:Error generating response">>]

\* streamlit_app.py 251-286: the Chat tab on a submitted prompt.  Calling
\* a chain that is None raises TypeError, which the handler at 283 turns
\* into an assistant turn.
ChatTab(sess, prompt, chat) ==
    IF ~sess.documents_processed
    THEN [ss |-> sess, trace |-> <<"chat:st.error:Please upload documents first!">>]
    ELSE ChatAnswer([sess EXCEPT !.messages = Append(@, Message("user", prompt))], chat)

\* the outcomes to consider for one uploaded file: a file that gives no
\* document asks no service, and without the key every service fails
FileOracles(file, keyOk) ==
    IF keyOk /\ LoadUploaded(file).docs # <<>> THEN FileOutcomes ELSE {<<"ok", "ok">>}

\* what the services answer during one run of the script that processes
\* the uploaded files, asks the Q&A query (askQa) and a chat prompt (askChat)
UiOracles(files, keyOk, askQa, askChat, askGen) ==
    { [files |-> fos, qa |-> qa, chat |-> chat, gen |-> gen] :
          fos \in { f \in [DOMAIN files -> FileOutcomes] :
                       \A i \in DOMAIN files : f[i] \in FileOracles(files[i], keyOk) },
          qa \in (IF askQa THEN QueryOutcomes ELSE {"ok"}),
          chat \in (IF askChat THEN QueryOutcomes ELSE {"ok"}),
          gen \in (IF ~askGen THEN {"ok"} ELSE IF keyOk THEN QueryOutcomes ELSE {"fail"}) }

Event(type, arg) == [type |-> type, arg |-> arg]

RunResult(sess, dir, calls, trace, rerun) ==
    [ss |-> sess, dir |-> dir, calls |-> calls, trace |-> trace, rerun |-> rerun]

\* streamlit_app.py 288-290: the Clear Chat History button, after the tab
RunAfterChat(ch, sb, ev, trace) ==
    IF ev.type = "clear_chat"
    THEN RunResult([ch.ss EXCEPT !.messages = <<>>], sb.dir, sb.calls,
                   trace \o ch.trace \o <<"clear_chat", "rerun">>, TRUE)
    ELSE RunResult(ch.ss, sb.dir, sb.calls, trace \o ch.trace, FALSE)

\* streamlit_app.py 296-388: the IEP Generation tab.  gen tells whether
\* the pipeline can be set up; without it the handler at 336-338 shows the
\* error and its second st.error raises TypeError on exc_info.  stop: the
\* run ends here.
IepTab(sess, ev, gen) ==
    IF ~sess.documents_processed
    THEN [ss |-> sess, trace |-> <<"iep:st.warning:Please upload documents first!">>,
          stop |-> FALSE, rerun |-> FALSE]
    ELSE IF ev.type = "generate_ieps" /\ gen = "ok"
    THEN [ss |-> [sess EXCEPT !.iep_results =
                     [i \in DOMAIN sess.documents |-> sess.documents[i].metadata.source]],
          trace |-> <<"iep:IEPPipeline", "iep:st.success">>,
          stop |-> FALSE, rerun |-> FALSE]
    ELSE IF ev.type = "generate_ieps"
    THEN [ss |-> sess,
          trace |-> <<"iep:IEPPipeline", "iep:raise", "iep:st.error:Error generating IEPs",
                      "iep:TypeError">>,
          stop |-> TRUE, rerun |-> FALSE]
    ELSE IF ev.type = "clear_iep" /\ sess.iep_results # <<>>
    THEN [ss |-> [sess EXCEPT !.iep_results = <<>>], trace |-> <<"clear_iep", "rerun">>,
          stop |-> TRUE, rerun |-> TRUE]
    ELSE [ss |-> sess, trace |-> <<>>, stop |-> FALSE, rerun |-> FALSE]

\* streamlit_app.py 394-503: the form of the Lesson Plan tab is submitted;
\* ev.arg tells whether the required fields are filled
PlanSubmitted(sess, ev, gen) ==
    IF sess.iep_results = <<>>
    THEN [ss |-> sess, trace |-> <<"plan:st.error:Please generate an IEP first">>]
    ELSE IF ev.arg # "filled"
    THEN [ss |-> sess, trace |-> <<"plan:st.error:Please fill in all required fields">>]
    ELSE IF gen = "ok"
    THEN [ss |-> [sess EXCEPT !.lesson_plans = Append(@, Head(sess.iep_results))],
          trace |-> <<"plan:LessonPlanPipeline", "plan:st.success">>]
    ELSE [ss |-> sess,
          trace |-> <<"plan:LessonPlanPipeline", "plan:raise",
                      "plan:st.error:Error generating lesson plan">>]

\* streamlit_app.py 394-503: the Lesson Plan Generation tab
PlanTab(sess, ev, gen) ==
    IF ev.type = "generate_plan" THEN PlanSubmitted(sess, ev, gen)
    ELSE [ss |-> sess, trace |-> <<>>]

\* streamlit_app.py 394-503 after the IEP tab
RunAfterIep(i, r, ev, gen) ==
    IF i.stop
    THEN RunResult(i.ss, r.dir, r.calls, r.trace \o i.trace, i.rerun)
    ELSE RunResult(PlanTab(i.ss, ev, gen).ss, r.dir, r.calls,
                   r.trace \o i.trace \o PlanTab(i.ss, ev, gen).trace, FALSE)

\* streamlit_app.py 292-503 after the chat tab: st.experimental_rerun() of
\* Clear Chat History ends the run, otherwise the two tabs that are left
\* are run
RunAfterTab2(r, ev, gen) ==
    IF r.rerun THEN r ELSE RunAfterIep(IepTab(r.ss, ev, gen), r, ev, gen)

\* streamlit_app.py 243-290 after the Q&A tab
RunAfterQA(qa, sb, ev, orc) ==
    IF qa.stop
    THEN RunResult(sb.ss, sb.dir, sb.calls, sb.trace \o qa.trace, FALSE)
    ELSE RunAfterTab2(RunAfterChat(IF ev.type = "chat"
                                   THEN ChatTab(sb.ss, ev.arg, orc.chat)
                                   ELSE [ss |-> sb.ss, trace |-> <<>>],
                                   sb, ev, sb.trace \o qa.trace),
                      ev, orc.gen)

\* streamlit_app.py 159-167 after the button's handler
RunAfterClear(c, sb) ==
    RunResult(c.ss, c.dir, sb.calls, sb.trace \o <<"clear_documents", "rerun">>, TRUE)

\* streamlit_app.py 159-290 after the sidebar's upload processing
RunAfterSidebar(sb, ev, wid, orc) ==
    IF sb.ss.documents_processed /\ ev.type = "clear_documents"
    THEN RunAfterClear(ClearDocuments(sb.ss, sb.dir), sb)
    ELSE RunAfterQA(QATab(sb.ss, wid, orc.qa), sb, ev, orc)

\* one run of the script on an event; lines 30-31 make the directories
RunOnce(ev, sess, dir, keyOk, wid, orc) ==
    RunAfterSidebar(Sidebar(sess, makedirs(dir), keyOk, wid, orc.files), ev, wid, orc)

\* the two runs of the script put together
RunTwice(r1, r2) ==
    [ss |-> r2.ss, dir |-> r2.dir, calls |-> r1.calls \o r2.calls,
     trace |-> r1.trace \o r2.trace]

ScriptAfterRun(r1, keyOk, wid, orc2) ==
    IF r1.rerun
    THEN RunTwice(r1, RunOnce(Event("none", "none"), r1.ss, r1.dir, keyOk, wid, orc2))
    ELSE [ss |-> r1.ss, dir |-> r1.dir, calls |-> r1.calls, trace |-> r1.trace]

\* the run on the event and, after st.experimental_rerun(), the run that
\* follows it
Script(ev, sess, dir, keyOk, wid, orc, orc2) ==
    ScriptAfterRun(RunOnce(ev, sess, dir, keyOk, wid, orc), keyOk, wid, orc2)

(***************************************************************************)
(* The state before any handler has run.                                   *)
(***************************************************************************)
NoOut == [op |-> "none", trace |-> <<>>, ret |-> "none", calls |-> <<>>]

NoLoad == [called |-> FALSE, exc |-> FALSE, docs |-> <<>>, use_dspy |-> FALSE]

\* streamlit_app.py 34-45
InitSession ==
    [chain |-> NoChain, documents_processed |-> FALSE, messages |-> <<>>,
     documents |-> <<>>, iep_results |-> <<>>, lesson_plans |-> <<>>]

InitWidgets == [uploaded_files |-> <<>>, query |-> FALSE]

\* the driver invocations that may run at the same time: two UI sessions
\* (threads of the Streamlit server) and the command-line program
Invocations == {"ui1", "ui2", "cli"}

\* no invocation is running
Idle == [p \in Invocations |-> [pc |-> "idle", processed |-> FALSE]]

(***************************************************************************)
(* The loader on its own: a directory is filled file by file and           *)
(* load_documents is called on it.                                         *)
(***************************************************************************)
LoaderInit ==
    /\ dataDir \in {[exists |-> FALSE, files |-> <<>>], [exists |-> TRUE, files |-> <<>>]}
    /\ loaded = NoLoad
    /\ indexDir = MissingDir
    /\ environ = FALSE
    /\ ss = InitSession
    /\ widgets = InitWidgets
    /\ out = NoOut
    /\ rawText = <<>>
    /\ inv = Idle

\* a file appears in the directory
AddFile ==
    /\ dataDir.exists
    /\ Len(dataDir.files) < MaxFiles
    /\ ~loaded.called
    /\ \E f \in FilesAt(Len(dataDir.files) + 1) :
           dataDir' = [dataDir EXCEPT !.files = Append(@, f)]
    /\ UNCHANGED <<loaded, indexDir, environ, ss, widgets, out, rawText, inv>>

\* load_documents(data_path, use_dspy) is called on the directory
LoadDocumentsCall ==
    /\ ~loaded.called
    /\ \E use_dspy \in BOOLEAN, pipelineOk \in BOOLEAN :
           LET r == load_documents("data", dataDir, use_dspy, pipelineOk) IN
           loaded' = [called |-> TRUE, exc |-> r.exc, docs |-> r.docs,
                      use_dspy |-> use_dspy]
    /\ UNCHANGED <<dataDir, indexDir, environ, ss, widgets, out, rawText, inv>>

LoaderNext == AddFile \/ LoadDocumentsCall

SpecLoader == LoaderInit /\ [][LoaderNext]_vars


(***************************************************************************)
(* clean_text on its own: a string is chosen and clean_text is called on   *)
(* it.                                                                     *)
(***************************************************************************)
\* one character of each kind the regular expressions tell apart
TextChars == {"uni", "dot", "colon", "sp", "nl", "tilde", "ctl", "a", "n", "bs", "bang"}

\* "Hello.   World!!", a letter standing for each word
Hello == <<"a", "dot", "sp", "sp", "sp", "b", "bang", "bang">>

CleanInit ==
    /\ dataDir = [exists |-> FALSE, files |-> <<>>]
    /\ loaded = NoLoad
    /\ indexDir = MissingDir
    /\ environ = FALSE
    /\ ss = InitSession
    /\ widgets = InitWidgets
    /\ out = NoOut
    /\ rawText \in UNION {[1..n -> TextChars] : n \in 0..MaxText} \cup {Hello}
    /\ inv = Idle

\* clean_text(text) is called
CleanTextCall ==
    /\ out.op = "none"
    /\ out' = [op |-> "clean_text", trace |-> <<>>, ret |-> clean_text(rawText),
               calls |-> <<>>]
    /\ UNCHANGED <<dataDir, loaded, indexDir, environ, ss, widgets, rawText, inv>>

CleanNext == CleanTextCall

SpecClean == CleanInit /\ [][CleanNext]_vars

(***************************************************************************)
(* The index operations of embeddings.py on given documents: an index is   *)
(* built from them, then loaded from where it was written.                 *)
(***************************************************************************)

\* a word of n letters
Letters(n) == [i \in 1..n |-> "a"]

\* the contents of the documents: short ones, with and without separators
\* and surrounding whitespace, and ones around and beyond chunk_size
IndexContents ==
    { <<"a", "b">>,
      <<"a", "dot", "sp", "b">>,
      <<"nl", "nl", "a">>,
      <<"sp">>,
      Letters(chunk_size - 1),
      Letters(chunk_size),
      Letters(chunk_size + 1),
      Letters(2 * chunk_size - 100),
      Letters(600) \o <<"sp">> \o Letters(600),
      Letters(500) \o <<"nl", "nl">> \o Letters(400),
      Letters(300) \o <<"dot">> \o Letters(1200) \o <<"bang", "nl">> }

\* the documents with the contents texts, each with a source of its own
IndexDocuments(texts) ==
    [i \in DOMAIN texts |->
        LangchainDocument(texts[i], <<ToString(i), ".txt">>, "text",
                          <<"data", <<ToString(i), ".txt">>>>, <<>>)]

\* the queries of the searches
IndexQueries == {<<"a">>, Letters(3), Letters(chunk_size - 100), Letters(chunk_size)}

IndexInit ==
    /\ dataDir = [exists |-> FALSE, files |-> <<>>]
    /\ loaded \in { [called |-> TRUE, exc |-> FALSE, docs |-> IndexDocuments(texts),
                     use_dspy |-> FALSE] :
                    texts \in UNION {[1..n -> IndexContents] : n \in 1..MaxIndexDocs} }
    /\ indexDir = MissingDir
    /\ environ = FALSE
    /\ ss = InitSession
    /\ widgets = InitWidgets
    /\ out = NoOut
    /\ rawText = <<>>
    /\ inv = Idle

\* build_faiss_index(documents, INDEX_DIR) is called on the documents
IndexBuildCall ==
    /\ out.op = "none"
    /\ \E keyOk \in BOOLEAN, o \in BuildOutcomes :
        \E r \in {build_faiss_index(loaded.docs, indexDir, keyOk, o)} :
        /\ indexDir' = r.dir
        /\ out' = [op |-> "build_faiss_index", trace |-> r.trace, ret |-> r.ret,
                   calls |-> <<>>, exc |-> r.exc]
    /\ UNCHANGED <<dataDir, loaded, environ, ss, widgets, rawText, inv>>

\* load_faiss_index(INDEX_DIR) is called after the build returned a store,
\* which stays at hand in built
IndexLoadCall ==
    /\ out.op = "build_faiss_index"
    /\ ~out.exc
    /\ \E keyOk \in BOOLEAN :
        \E r \in {load_faiss_index(indexDir, keyOk)} :
        out' = [op |-> "load_faiss_index", trace |-> <<>>, ret |-> r.ret,
                calls |-> <<>>, exc |-> r.exc, built |-> out.ret]
    /\ UNCHANGED <<dataDir, loaded, indexDir, environ, ss, widgets, rawText, inv>>

IndexNext == IndexBuildCall \/ IndexLoadCall

SpecIndex == IndexInit /\ [][IndexNext]_vars

(***************************************************************************)
(* The drivers: the UI session, the command-line program and direct calls  *)
(* of the index operations, all on the same DATA_DIR and INDEX_DIR.        *)
(***************************************************************************)

\* the directories DATA_DIR may be when a driver starts
DriverDirs ==
    { [exists |-> FALSE, files |-> <<>>],
      [exists |-> TRUE, files |-> <<>>],
      [exists |-> TRUE, files |-> <<BlankTxt>>],
      [exists |-> TRUE, files |-> <<GoodTxt>>],
      [exists |-> TRUE, files |-> <<GoodTxt, GoodPdf>>] }

\* an index saved by an earlier run, of a document no longer in DATA_DIR
OldEntries ==
    split_documents(<<LangchainDocument(<<"b">>, <<"old", ".txt">>, "text",
                                        <<"data", <<"old", ".txt">>>>, <<>>)>>)

IndexDirs ==
    { MissingDir,
      [exists |-> TRUE, kind |-> "none", entries |-> <<>>, vectors |-> <<>>],
      [exists |-> TRUE, kind |-> "corrupt", entries |-> <<>>, vectors |-> <<>>],
      save_local(MissingDir, from_documents(OldEntries, BuildModel)) }

\* what the file uploader may hold
RECURSIVE SeqsUpTo(_, _)
SeqsUpTo(S, n) ==
    IF n = 0 THEN {<<>>}
    ELSE LET shorter == SeqsUpTo(S, n - 1) IN
         shorter \cup {Append(q, x) : q \in {r \in shorter : Len(r) = n - 1}, x \in S}

UploadChoices == SeqsUpTo({UpTxt, UpBlank}, MaxUpload)

Init ==
    /\ dataDir \in DriverDirs
    /\ loaded = NoLoad
    /\ indexDir \in IndexDirs
    /\ environ = FALSE
    /\ ss = InitSession
    /\ widgets = InitWidgets
    /\ out = NoOut
    /\ rawText = <<>>
    /\ inv = Idle

\* the uploads a run of the script processes
Processed(sess, wid) ==
    IF ~sess.documents_processed THEN wid.uploaded_files ELSE <<>>

\* the script runs on the event ev with the widgets wid and the key keyOk
\* (a run on Clear Documents is rerun before it reaches the Q&A tab)
UiRun(ev, wid, keyOk) ==
    \E orc \in UiOracles(Processed(ss, wid), keyOk,
                          wid.query /\ ev.type # "clear_documents", ev.type = "chat",
                          ev.type \in {"generate_ieps", "generate_plan"}) :
    \E orc2 \in UiOracles(IF ev.type = "clear_documents" THEN wid.uploaded_files ELSE <<>>,
                           keyOk, wid.query /\ ev.type \in {"clear_documents", "clear_chat"},
                           FALSE, FALSE) :
        \E r \in {Script(ev, ss, indexDir, keyOk, wid, orc, orc2)} :
        /\ ss' = r.ss
        /\ indexDir' = r.dir
        /\ widgets' = wid
        /\ environ' = keyOk
        /\ dataDir' = [dataDir EXCEPT !.exists = TRUE]
        /\ out' = [op |-> ev.type, trace |-> r.trace, ret |-> "none", calls |-> r.calls]
        /\ UNCHANGED <<loaded, rawText, inv>>

\* the user changes the files in the uploader
SetUploads ==
    \E files \in UploadChoices \ {widgets.uploaded_files} :
        UiRun(Event("upload", "none"), [widgets EXCEPT !.uploaded_files = files], environ)

\* the user types the API key in the sidebar
TypeApiKey ==
    /\ ~environ
    /\ UiRun(Event("api_key", "none"), widgets, TRUE)

\* the user clicks Clear Documents, shown while documents_processed
ClickClearDocuments ==
    /\ ss.documents_processed
    /\ UiRun(Event("clear_documents", "none"), widgets, environ)

\* the user types or erases the query of the Q&A tab, enabled while
\* documents_processed
TypeQuery ==
    /\ ss.documents_processed
    /\ UiRun(Event("query", "none"), [widgets EXCEPT !.query = ~@], environ)

\* the user submits a prompt in the chat tab
ChatPrompt ==
    /\ Len(ss.messages) + 2 <= MaxMessages
    /\ UiRun(Event("chat", "q"), widgets, environ)

\* the user clicks Clear Chat History
ClickClearChat ==
    /\ UiRun(Event("clear_chat", "none"), widgets, environ)

\* python main.py
Main ==
    \E keyOk \in BOOLEAN, n \in 0..MaxQueries :
    \E orc \in OraclesFor(FALSE, keyOk), answers \in [1..n -> QueryOutcomes] :
        \E r \in {main(dataDir, indexDir, keyOk, orc, answers)} :
        /\ dataDir' = r.data
        /\ indexDir' = r.dir
        /\ out' = [op |-> "main", trace |-> r.trace, ret |-> r.ret, calls |-> <<>>]
        /\ UNCHANGED <<loaded, environ, ss, widgets, rawText, inv>>

\* initialize_qa_chain(use_dspy, rebuild_index) is called; services tells
\* whether the key was set and every external service answered
InitializeQaChainCall ==
    \E use_dspy \in BOOLEAN, rebuild_index \in BOOLEAN, keyOk \in BOOLEAN :
    \E orc \in OraclesFor(use_dspy, keyOk) :
        \E r \in {initialize_qa_chain(use_dspy, rebuild_index, dataDir, indexDir, keyOk, orc)} :
        /\ dataDir' = r.data
        /\ indexDir' = r.dir
        /\ out' = [op |-> "initialize_qa_chain", trace |-> r.trace, ret |-> r.ret,
                   calls |-> <<>>, use_dspy |-> use_dspy, rebuild_index |-> rebuild_index,
                   services |-> keyOk /\ orc = AllOk, key |-> keyOk]
        /\ UNCHANGED <<loaded, environ, ss, widgets, rawText, inv>>

\* load_faiss_index(INDEX_DIR) is called
LoadFaissIndexCall ==
    \E keyOk \in BOOLEAN :
        \E r \in {load_faiss_index(indexDir, keyOk)} :
        /\ out' = [op |-> "load_faiss_index", trace |-> <<>>, ret |-> r.ret,
                   calls |-> <<>>, exc |-> r.exc, key |-> keyOk]
        /\ UNCHANGED <<dataDir, loaded, indexDir, environ, ss, widgets, rawText, inv>>

\* the documents of DATA_DIR, as the callers of the build operations load them
DataDocuments == load_documents("data", dataDir, FALSE, TRUE).docs

\* build_faiss_index(documents, INDEX_DIR) is called
BuildFaissIndexCall ==
    /\ DataDocuments # <<>>
    /\ \E keyOk \in BOOLEAN, o \in BuildOutcomes :
        \E r \in {build_faiss_index(DataDocuments, indexDir, keyOk, o)} :
        /\ indexDir' = r.dir
        /\ out' = [op |-> "build_faiss_index", trace |-> r.trace, ret |-> r.ret,
                   calls |-> <<>>, exc |-> r.exc, key |-> keyOk]
        /\ UNCHANGED <<dataDir, loaded, environ, ss, widgets, rawText, inv>>

\* build_faiss_index_with_dspy(documents, INDEX_DIR) is called
BuildFaissIndexWithDspyCall ==
    /\ DataDocuments # <<>>
    /\ \E keyOk \in BOOLEAN :
        \E orc \in OraclesFor(TRUE, keyOk) :
        \E r \in {build_faiss_index_with_dspy(DataDocuments, indexDir, keyOk,
                         orc.pipelineOk, orc.extractFail, orc.o1, orc.o2)} :
        /\ orc.chain = "ok"
        /\ indexDir' = r.dir
        /\ out' = [op |-> "build_faiss_index_with_dspy", trace |-> r.trace,
                   ret |-> r.ret, calls |-> <<>>, exc |-> r.exc, key |-> keyOk]
        /\ UNCHANGED <<dataDir, loaded, environ, ss, widgets, rawText, inv>>

\* process_uploaded_file(file) is called on the session
ProcessUploadedFileCall ==
    /\ Len(ss.documents) < MaxDocuments
    /\ \E file \in {UpTxt, UpBlank}, keyOk \in BOOLEAN :
       \E fo \in (IF keyOk THEN FileOutcomes ELSE {<<"ok", "ok">>}) :
       \E r \in {process_uploaded_file(file, ss, indexDir, keyOk, fo)} :
        /\ ss' = r.ss
        /\ indexDir' = r.dir
        /\ out' = [op |-> "process_uploaded_file", trace |-> r.trace, ret |-> r.ret,
                   calls |-> <<>>, exc |-> r.exc, ndocs |-> r.ndocs, file |-> file,
                   key |-> keyOk]
        /\ UNCHANGED <<dataDir, loaded, environ, widgets, rawText, inv>>

Next ==
    \/ Main
    \/ InitializeQaChainCall
    \/ LoadFaissIndexCall
    \/ BuildFaissIndexCall
    \/ BuildFaissIndexWithDspyCall
    \/ ProcessUploadedFileCall

Spec == Init /\ [][Next]_vars

(***************************************************************************)
(* The UI session on its own.                                              *)
(***************************************************************************)
UiInit ==
    /\ dataDir = [exists |-> TRUE, files |-> <<>>]
    /\ loaded = NoLoad
    /\ indexDir \in IndexDirs
    /\ environ \in BOOLEAN
    /\ ss = InitSession
    /\ widgets = InitWidgets
    /\ out = NoOut
    /\ rawText = <<>>
    /\ inv = Idle

\* the user clicks Generate IEPs, shown while documents_processed
ClickGenerateIeps ==
    /\ ss.documents_processed
    /\ UiRun(Event("generate_ieps", "none"), widgets, environ)

\* the user clicks Clear IEP Results, shown while there are results
ClickClearIep ==
    /\ ss.documents_processed
    /\ ss.iep_results # <<>>
    /\ UiRun(Event("clear_iep", "none"), widgets, environ)

\* the user submits the form of the lesson plan, filled or not
SubmitLessonPlan ==
    /\ Len(ss.lesson_plans) < MaxPlans
    /\ \E fields \in {"filled", "blank"} :
           UiRun(Event("generate_plan", fields), widgets, environ)

UiNext ==
    \/ SetUploads
    \/ TypeApiKey
    \/ ClickClearDocuments
    \/ TypeQuery
    \/ ChatPrompt
    \/ ClickClearChat
    \/ ClickGenerateIeps
    \/ ClickClearIep
    \/ SubmitLessonPlan

SpecUI == UiInit /\ [][UiNext]_vars

(***************************************************************************)
(* The sidebar of the UI session on its own: batches of uploaded files,    *)
(* the API key and Clear Documents.                                        *)
(***************************************************************************)
\* what the file uploader may hold: up to MaxUpload files, in any order
BatchChoices == SeqsUpTo({UpTxt, UpPdf, UpBlank}, MaxUpload)

\* the user changes the files in the uploader
UploadBatch ==
    \E files \in BatchChoices \ {widgets.uploaded_files} :
        UiRun(Event("upload", "none"), [widgets EXCEPT !.uploaded_files = files], environ)

BatchNext ==
    \/ UploadBatch
    \/ TypeApiKey
    \/ ClickClearDocuments

SpecBatch == UiInit /\ [][BatchNext]_vars

(***************************************************************************)
(* The drivers running at the same time on INDEX_DIR.  Nothing in the code *)
(* locks the location, so the file-system calls of the invocations         *)
(* interleave: each action is one such call of one invocation, and pc is   *)
(* where the invocation stands.  processed is the session's                *)
(* documents_processed.                                                    *)
(***************************************************************************)
Sessions == {"ui1", "ui2"}

\* INDEX_DIR after save_local wrote index.faiss and before it wrote index.pkl
HalfWritten == [exists |-> TRUE, kind |-> "half", entries |-> <<>>, vectors |-> <<>>]

\* the store an invocation builds of its document
StoreOf(p) == from_documents(split_documents(IndexDocuments(<<<<p>>>>)), BuildModel)

ConcInit ==
    /\ dataDir = [exists |-> TRUE, files |-> <<>>]
    /\ loaded = NoLoad
    /\ indexDir \in IndexDirs
    /\ environ = TRUE
    /\ ss = InitSession
    /\ widgets = InitWidgets
    /\ out = NoOut
    /\ rawText = <<>>
    /\ inv = Idle

At(p, pc) == inv[p].pc = pc

Goto(p, pc) == inv' = [inv EXCEPT ![p].pc = pc]

ConcUnchanged == UNCHANGED <<dataDir, loaded, environ, ss, widgets, out, rawText>>

\* os.makedirs(INDEX_DIR, exist_ok=True), with which a run of the script
\* (streamlit_app.py 30) and initialize_qa_chain (main.py 36) start
Ensure(p) ==
    /\ At(p, "idle")
    /\ indexDir' = makedirs(indexDir)
    /\ Goto(p, "ensured")
    /\ ConcUnchanged

\* os.path.exists(INDEX_DIR) at streamlit_app.py 69 or main.py 59: the
\* rebuild goes to rmtree if the directory is there, to makedirs if not.
\* The command-line program comes here with a forced rebuild, or when it
\* found no directory to load from.
RebuildExists(p) ==
    /\ At(p, "ensured") \/ At(p, "rebuild")
    /\ Goto(p, IF indexDir.exists THEN "checked" ELSE "removed")
    /\ UNCHANGED indexDir
    /\ ConcUnchanged

\* shutil.rmtree(INDEX_DIR) at streamlit_app.py 70 or main.py 60: it
\* raises if the directory has gone since the check
RebuildRmtree(p) ==
    /\ At(p, "checked")
    /\ IF indexDir.exists
       THEN indexDir' = rmtree(indexDir) /\ Goto(p, "removed")
       ELSE UNCHANGED indexDir /\ Goto(p, "failed")
    /\ ConcUnchanged

\* os.makedirs(INDEX_DIR) at streamlit_app.py 71 or main.py 61, without
\* exist_ok: it raises if the directory is there
RebuildMakedirs(p) ==
    /\ At(p, "removed")
    /\ IF indexDir.exists
       THEN UNCHANGED indexDir /\ Goto(p, "failed")
       ELSE indexDir' = makedirs(indexDir) /\ Goto(p, "made")
    /\ ConcUnchanged

\* save_local, first half (embeddings.py 29): the directory is made if it
\* is not there and index.faiss is written
RebuildWriteFaiss(p) ==
    /\ At(p, "made")
    /\ indexDir' = HalfWritten
    /\ Goto(p, "saving")
    /\ ConcUnchanged

\* save_local, second half: index.pkl is written, which raises if the
\* directory has gone; the rebuild is complete
RebuildWritePkl(p) ==
    /\ At(p, "saving")
    /\ IF indexDir.exists
       THEN /\ indexDir' = save_local(indexDir, StoreOf(p))
            /\ inv' = [inv EXCEPT ![p] = [pc |-> "idle", processed |-> TRUE]]
       ELSE UNCHANGED indexDir /\ Goto(p, "failed")
    /\ ConcUnchanged

\* Clear Documents, streamlit_app.py 161-165: the flags are reset and
\* INDEX_DIR is looked for
ClearExists(p) ==
    /\ p \in Sessions /\ At(p, "ensured") /\ inv[p].processed
    /\ inv' = [inv EXCEPT ![p] = [pc |-> IF indexDir.exists THEN "clearing" ELSE "idle",
                                   processed |-> FALSE]]
    /\ UNCHANGED indexDir
    /\ ConcUnchanged

\* Clear Documents, streamlit_app.py 166: shutil.rmtree(INDEX_DIR)
ClearRmtree(p) ==
    /\ At(p, "clearing")
    /\ IF indexDir.exists
       THEN indexDir' = rmtree(indexDir) /\ Goto(p, "idle")
       ELSE UNCHANGED indexDir /\ Goto(p, "failed")
    /\ ConcUnchanged

\* main.py 49-51: load_faiss_index(INDEX_DIR) without a forced rebuild,
\* if the directory is there; the load raises on what is no whole index
CliLoad ==
    /\ At("cli", "ensured")
    /\ Goto("cli", IF ~indexDir.exists THEN "rebuild"
                   ELSE IF load_faiss_index(indexDir, TRUE).exc THEN "failed"
                   ELSE "loaded")
    /\ UNCHANGED indexDir
    /\ ConcUnchanged

\* the invocation is over: the exception has been shown or logged, the
\* command-line program has ended and may be started again
Return(p) ==
    /\ At(p, "failed") \/ At(p, "loaded")
    /\ Goto(p, "idle")
    /\ UNCHANGED indexDir
    /\ ConcUnchanged

ConcNext ==
    \/ \E p \in Invocations : Ensure(p)
    \/ \E p \in Invocations : RebuildExists(p)
    \/ \E p \in Invocations : RebuildRmtree(p)
    \/ \E p \in Invocations : RebuildMakedirs(p)
    \/ \E p \in Invocations : RebuildWriteFaiss(p)
    \/ \E p \in Invocations : RebuildWritePkl(p)
    \/ \E p \in Sessions : ClearExists(p)
    \/ \E p \in Sessions : ClearRmtree(p)
    \/ CliLoad
    \/ \E p \in Invocations : Return(p)

SpecConc == ConcInit /\ [][ConcNext]_vars

(***************************************************************************)
(* The loader's claims, checked under SpecLoader.                          *)
(***************************************************************************)
SupportedExts == {".txt", ".md", ".docx", ".doc", ".pdf"}

\* the whole text of a file, cleaned
CleanedText(f) == clean_text(Join(f.parts, <<"nl">>))

\* the extraction of this file raises
Fails(f) == f.corrupt /\ f.name[2] \in SupportedExts

\* what load_documents gives on the listing without the files that fail
WithoutFailing ==
    load_documents("data", [dataDir EXCEPT !.files = SelectSeq(@, LAMBDA f : ~Fails(f))],
                   loaded.use_dspy, TRUE)

\* C8: when the extraction of a file of the listing raises, load_documents
\* does not raise because of it: without DSPy it does not raise at all, and
\* a run with DSPy raises only where documents of other files are left to
\* enhance.  It returns what it returns on the listing without the failing
\* files: the document of every other file.
C8_FailingFileSkipped ==
    loaded.called /\ (\E i \in DOMAIN dataDir.files : Fails(dataDir.files[i]))
        => /\ ~loaded.use_dspy => ~loaded.exc
           /\ loaded.exc => WithoutFailing.docs # <<>>
           /\ ~loaded.exc => loaded.docs = WithoutFailing.docs

\* a failing file stands before a file whose document is returned
C8_Witness ==
    /\ loaded.called /\ ~loaded.exc
    /\ \E i, j \in DOMAIN dataDir.files :
           /\ i < j
           /\ Fails(dataDir.files[i])
           /\ \E k \in DOMAIN loaded.docs :
                  loaded.docs[k].metadata.source = dataDir.files[j].name

\* the files of the listing that are to give a document
Yielding ==
    SelectSeq(dataDir.files,
              LAMBDA f : f.name[2] \in SupportedExts /\ ~f.corrupt /\ CleanedText(f) # <<>>)

\* C9: without DSPy load_documents does not raise and returns, in the order
\* of the listing, one Document for each file with a supported extension
\* whose cleaned text is not empty, its source the file's name and its type
\* set, and none for any other file; a directory that does not exist or
\* holds only other files gives the empty sequence.
C9_OneDocumentPerFile ==
    loaded.called /\ ~loaded.use_dspy
        => /\ ~loaded.exc
           /\ Len(loaded.docs) = Len(Yielding)
           /\ \A i \in DOMAIN loaded.docs :
                  /\ loaded.docs[i].metadata.source = Yielding[i].name
                  /\ loaded.docs[i].metadata.type \in {"docx", "pdf", "text"}
                  /\ loaded.docs[i].page_content # <<>>
           /\ ~dataDir.exists => loaded.docs = <<>>

\* a run without DSPy on a listing of two files of different supported
\* types gave two documents
C9_Witness ==
    /\ loaded.called /\ ~loaded.use_dspy
    /\ Len(dataDir.files) = 2 /\ Len(loaded.docs) = 2
    /\ dataDir.files[1].name[2] = ".md" /\ dataDir.files[2].name[2] = ".pdf"

\* C10: every Document load_documents returns, with or without DSPy, has
\* content that is neither empty nor whitespace only, and no file whose
\* cleaned text is empty has a Document.
C10_NoBlankDocument ==
    loaded.called /\ ~loaded.exc
        => /\ \A i \in DOMAIN loaded.docs : Strip(loaded.docs[i].page_content) # <<>>
           /\ \A j \in DOMAIN dataDir.files :
                  CleanedText(dataDir.files[j]) = <<>>
                      => \A i \in DOMAIN loaded.docs :
                             loaded.docs[i].metadata.source # dataDir.files[j].name

\* a file of whitespace pages was dropped by a run with DSPy that returned
\* the document of another file
C10_Witness ==
    /\ loaded.called /\ ~loaded.exc /\ loaded.use_dspy
    /\ Len(loaded.docs) = 1
    /\ \E j \in DOMAIN dataDir.files :
           /\ dataDir.files[j].name[2] = ".pdf"
           /\ ~dataDir.files[j].corrupt
           /\ dataDir.files[j].parts # <<>>
           /\ CleanedText(dataDir.files[j]) = <<>>
(***************************************************************************)
(* The claims on the drivers, checked under Spec.                          *)
(***************************************************************************)
\* the last handler made this call or gave this signal
InTrace(x) == \E i \in DOMAIN out.trace : out.trace[i] = x

\* the documents of DATA_DIR are none
NoDataDocuments == load_documents("data", dataDir, FALSE, TRUE).docs = <<>>

\* the uploaded file gives no document
NoUploadDocuments ==
    load_documents("tmp", [exists |-> TRUE, files |-> <<out.file>>], FALSE, TRUE).docs = <<>>

\* C7: when the loader returns an empty sequence the driver calls no index
\* build and creates no chain: initialize_qa_chain logs that no documents
\* were loaded and returns None, process_uploaded_file shows an error,
\* returns False and leaves INDEX_DIR and the session's chain as they were.
C7_NoBuildWithoutDocuments ==
    /\ out.op = "initialize_qa_chain" /\ InTrace("load_documents") /\ NoDataDocuments
           => /\ ~InTrace("build") /\ ~InTrace("build_rag_chain")
              /\ InTrace("log:No documents were loaded!")
              /\ ~out.ret.held
              /\ indexDir.kind = "none"
    /\ out.op = "process_uploaded_file" /\ NoUploadDocuments
           => /\ ~InTrace("build") /\ ~InTrace("build_rag_chain") /\ ~InTrace("chain_set")
              /\ ~InTrace("rmtree")
              /\ InTrace("st.error:No text could be extracted")
              /\ ~out.exc /\ out.ret = FALSE

\* a forced rebuild ran on a directory whose only file is blank
C7_Witness ==
    /\ out.op = "initialize_qa_chain" /\ out.rebuild_index
    /\ dataDir.files # <<>> /\ NoDataDocuments
    /\ InTrace("load_documents")
\* the place of the first x in the trace of the last handler, 0 if none
RECURSIVE FirstIn(_, _)
FirstIn(trace, x) ==
    IF trace = <<>> THEN 0
    ELSE IF Head(trace) = x THEN 1
    ELSE IF FirstIn(Tail(trace), x) = 0 THEN 0 ELSE 1 + FirstIn(Tail(trace), x)

\* the persisted index cannot be loaded: the location is missing, empty or
\* holds a file that cannot be read
Unloadable(dir) == ~dir.exists \/ dir.kind # "index"

\* C2: when initialize_qa_chain runs without a forced rebuild and the
\* persisted index cannot be loaded, it deletes the location, runs the
\* loader and the build and, where documents exist and the services
\* respond, returns a chain.
C2_FailedLoadRebuilds ==
    [][ ( /\ out'.op = "initialize_qa_chain" /\ ~out'.rebuild_index /\ out'.services
          /\ Unloadable(indexDir)
          /\ ~NoDataDocuments )
            => /\ FirstIn(out'.trace, "rmtree") > 0
               /\ FirstIn(out'.trace, "load_documents") > FirstIn(out'.trace, "rmtree")
               /\ FirstIn(out'.trace, "build") > FirstIn(out'.trace, "load_documents")
               /\ out'.ret.held ]_vars

\* C3: load_faiss_index never raises; on a location that is missing, empty
\* or unreadable it returns no handle.
C3_LoadReturnsAbsent ==
    out.op = "load_faiss_index"
        => /\ ~out.exc
           /\ Unloadable(indexDir) => ~out.ret.held

\* C4: when initialize_qa_chain runs without a forced rebuild and the
\* persisted index loads, it returns a chain, the loader is not called and
\* the index location is left as it was.
C4_LoadedIndexGoesReady ==
    [][ ( /\ out'.op = "initialize_qa_chain" /\ ~out'.rebuild_index /\ out'.services
          /\ ~Unloadable(indexDir) )
            => /\ out'.ret.held
               /\ FirstIn(out'.trace, "load_documents") = 0
               /\ FirstIn(out'.trace, "rmtree") = 0
               /\ indexDir' = indexDir ]_vars

\* C5: a forced rebuild with a loadable document and responding services
\* deletes the persisted index, then loads, then builds, then returns a
\* chain; the index persisted afterwards holds exactly the chunks of the
\* documents loaded, and no entry of the index before.
C5_RebuildReplacesIndex ==
    ( /\ out.op = "initialize_qa_chain" /\ out.rebuild_index /\ out.services
      /\ ~out.use_dspy
      /\ ~NoDataDocuments )
        => /\ FirstIn(out.trace, "rmtree") > 0
           /\ FirstIn(out.trace, "load_documents") > FirstIn(out.trace, "rmtree")
           /\ FirstIn(out.trace, "build") > FirstIn(out.trace, "load_documents")
           /\ indexDir.kind = "index"
           /\ indexDir.entries = split_documents(DataDocuments)
           /\ \A i \in DOMAIN indexDir.entries : \A j \in DOMAIN OldEntries :
                  indexDir.entries[i] # OldEntries[j]
           /\ out.ret.held

\* a call of the embedding service failed during the last build: it is the
\* last call before the handler of build_faiss_index_with_dspy or before
\* the exception left the operation
EmbeddingFailed ==
    \E i \in DOMAIN out.trace :
        /\ out.trace[i] \in {"embed_documents", "embed_query"}
        /\ \/ i = Len(out.trace) /\ out.exc
           \/ i < Len(out.trace) /\ out.trace[i + 1] = "except"

\* C6: when a call of the embedding service fails during an index build,
\* build_faiss_index and build_faiss_index_with_dspy raise, return no vector
\* store and write nothing to the index location.
C6_EmbeddingFailureSurfaced ==
    out.op \in {"build_faiss_index", "build_faiss_index_with_dspy"} /\ EmbeddingFailed
        => /\ out.exc
           /\ ~out.ret.held
           /\ FirstIn(out.trace, "save_local") = 0
(***************************************************************************)
(* The claim on the UI session, checked under SpecUI.                      *)
(***************************************************************************)
\* C1: a query is handed to the chain only when a chain is held: the call
\* of a chain that is None is never attempted, and a chat prompt or a Q&A
\* query submitted while no chain is held gets the "upload documents
\* first" signal.
C1_QueryOnlyWhenReady ==
    /\ ~InTrace("chat:invoke(None)")
    /\ out.op = "chat" /\ ~ss.chain.held
           => InTrace("chat:st.error:Please upload documents first!")
    /\ out.op = "query" /\ widgets.query /\ ~ss.chain.held
           => InTrace("qa:st.warning:Please upload documents first!")
(***************************************************************************)
(* The claims on clean_text, checked under SpecClean.                      *)
(***************************************************************************)
\* the punctuation characters of the texts
PunctuationMarks == Punct \cup {"bang"}

\* "Hello. World."
HelloCleaned == <<"a", "dot", "sp", "b", "dot">>

\* C11: in the result of clean_text no run of two or more punctuation
\* characters is left, every such run having become one period, and
\* clean_text("Hello.   World!!") is "Hello. World.".
C11_PunctuationRunsCollapsed ==
    out.op = "clean_text"
        => /\ \A i \in 1..(Len(out.ret) - 1) :
                  ~(out.ret[i] \in PunctuationMarks /\ out.ret[i + 1] \in PunctuationMarks)
           /\ rawText = Hello => out.ret = HelloCleaned

\* C12: the result of clean_text holds no two space characters in a row
\* and neither starts nor ends with whitespace.
C12_NoDoubleSpace ==
    out.op = "clean_text"
        => /\ \A i \in 1..(Len(out.ret) - 1) :
                  ~(out.ret[i] = "sp" /\ out.ret[i + 1] = "sp")
           /\ out.ret # <<>> => out.ret[1] \notin Space /\ out.ret[Len(out.ret)] \notin Space

(***************************************************************************)
(* The claims about the index operations, under SpecIndex.                 *)
(***************************************************************************)
\* the texts of the chunks the store holds of the document d
ChunksOf(vectorstore, d) ==
    [i \in DOMAIN SelectSeq(vectorstore.entries, LAMBDA e : e.metadata = d.metadata) |->
        SelectSeq(vectorstore.entries, LAMBDA e : e.metadata = d.metadata)[i].page_content]

\* build_faiss_index has returned a store
Built == out.op = "build_faiss_index" /\ ~out.exc

\* C13, first part: no chunk of a built index is longer than chunk_size
ChunksWithinSize ==
    Built => \A i \in DOMAIN out.ret.entries :
                 Len(out.ret.entries[i].page_content) <= chunk_size

\* C13 as stated: no chunk is longer than 1000 characters, and a document
\* shorter than that gives one chunk, whose text is the document's content
C13_ShortDocumentOneChunk ==
    /\ ChunksWithinSize
    /\ Built => \A i \in DOMAIN loaded.docs :
           Len(loaded.docs[i].page_content) < chunk_size
               => ChunksOf(out.ret, loaded.docs[i]) = <<loaded.docs[i].page_content>>

\* C13, amended: no chunk is longer than 1000 characters, and a document
\* shorter than that gives its content stripped of the whitespace around
\* it as one chunk, and no chunk when nothing is left of it
C13_ShortDocumentStripped ==
    /\ ChunksWithinSize
    /\ Built => \A i \in DOMAIN loaded.docs :
           Len(loaded.docs[i].page_content) < chunk_size
               => ChunksOf(out.ret, loaded.docs[i])
                      = IF Strip(loaded.docs[i].page_content) = <<>> THEN <<>>
                        ELSE <<Strip(loaded.docs[i].page_content)>>

\* an index built of a short document with whitespace around its content
\* and of one that takes several chunks
C13_Witness ==
    /\ Built
    /\ \E i \in DOMAIN loaded.docs :
           /\ Len(loaded.docs[i].page_content) < chunk_size
           /\ Strip(loaded.docs[i].page_content) # loaded.docs[i].page_content
           /\ Len(ChunksOf(out.ret, loaded.docs[i])) = 1
    /\ \E i \in DOMAIN loaded.docs : Len(ChunksOf(out.ret, loaded.docs[i])) > 1

\* load_faiss_index has returned a store from where the build wrote its own
Reloaded == out.op = "load_faiss_index" /\ ~out.exc

LastMessage == ss.messages[Len(ss.messages)]

\* the places of x in the sequence t
PlacesOf(t, x) == {j \in DOMAIN t : t[j] = x}

\* C15: when the chain raises while answering, the user gets an error that
\* is no answer: the error display of the Q&A tab, an error turn in the
\* chat, a logged error in the loop of main.py; no response is shown or
\* stored for the query, and the session keeps its chain and its documents
C15_LlmFailureSurfaced ==
    /\ \A j \in PlacesOf(out.trace, "chat:raise") :
              /\ j < Len(out.trace)
              /\ out.trace[j + 1] = "chat:st.error:Error generating response"
              /\ LastMessage = Message("assistant", "Error generating response")
              /\ ss.chain.held /\ ss.documents_processed
    /\ \A j \in PlacesOf(out.trace, "qa:raise") :
           /\ j < Len(out.trace)
           /\ out.trace[j + 1] = "qa:st.error:Error generating response"
           /\ ss.chain.held /\ ss.documents_processed
    /\ \A answers \in UNION {[1..n -> QueryOutcomes] : n \in 1..MaxMessages} :
           /\ Cardinality(PlacesOf(CliLoop(NoChain, answers), "cli:invoke(chain)"))
                  = Len(answers)
           /\ Cardinality(PlacesOf(CliLoop(NoChain, answers), "print:Answer"))
                  = Cardinality(PlacesOf(answers, "ok"))
           /\ \A j \in PlacesOf(CliLoop(NoChain, answers), "cli:raise") :
                  /\ j < Len(CliLoop(NoChain, answers))
                  /\ CliLoop(NoChain, answers)[j + 1] = "log:Error processing query"

\* the chain raised on a chat prompt after an answered one
C15_Witness ==
    /\ out.op = "chat"
    /\ InTrace("chat:raise")
    /\ Len(ss.messages) = 4
    /\ ss.messages[2] = Message("assistant", "answer")

(***************************************************************************)
(* The claim on the DSPy enhancement, checked under SpecLoader.            *)
(***************************************************************************)
\* the documents of the directory as they are loaded without enhancement
PlainDocuments == load_documents("data", dataDir, FALSE, TRUE).docs

\* the list result holds, place by place, the documents of originals, each
\* as it was or enhanced
EachKeptOrEnhanced(result, originals) ==
    /\ Len(result) = Len(originals)
    /\ \A i \in DOMAIN originals :
           \/ result[i] = originals[i]
           \/ result[i] = [page_content |-> Enhanced(originals[i].page_content),
                           metadata |-> originals[i].metadata]

\* C16: whatever fails in the enhancement, its set-up included,
\* load_documents with use_dspy and IEPPipeline.process_documents raise
\* nothing and return the loaded documents in their order, each enhanced
\* or as it was
C16_DspyNeverFatal ==
    /\ loaded.called /\ loaded.use_dspy
           => /\ ~loaded.exc
              /\ EachKeptOrEnhanced(loaded.docs, PlainDocuments)
    /\ \A extractFail \in SUBSET DOMAIN PlainDocuments :
           EachKeptOrEnhanced(process_documents(PlainDocuments, extractFail),
                              PlainDocuments)

(***************************************************************************)
(* The claims on initialize_qa_chain and the API key, checked under Spec.  *)
(***************************************************************************)
\* C17: initialize_qa_chain returns None when the index load, the loading
\* of the documents, the build or the construction of the chain fails, and
\* the chain otherwise: when the services respond and either the persisted
\* index loads or a forced rebuild finds documents
C17_NoneOnFailureElseChain ==
    [][ out'.op = "initialize_qa_chain"
            => /\ ~out'.services => ~out'.ret.held
               /\ ( /\ out'.services
                    /\ \/ ~out'.rebuild_index /\ ~Unloadable(indexDir)
                       \/ out'.rebuild_index /\ ~NoDataDocuments )
                      => out'.ret.held ]_vars

(***************************************************************************)
(* The claim on the conversation of the session, checked under SpecUI.     *)
(***************************************************************************)
\* the sequence t starts with the sequence s
StartsWith(t, s) == Len(s) <= Len(t) /\ SubSeq(t, 1, Len(s)) = s

\* C18: every run of the script leaves st.session_state.messages as it
\* was, or with turns appended to it by a chat prompt, or emptied by Clear
\* Chat History; uploads, Clear Documents, the generation of IEPs and of
\* lesson plans leave it as it was
C18_MessagesAppendOnly ==
    [][ /\ \/ ss'.messages = ss.messages
           \/ out'.op = "chat" /\ StartsWith(ss'.messages, ss.messages)
           \/ out'.op = "clear_chat" /\ ss'.messages = <<>>
        /\ out'.op \in {"upload", "clear_documents", "generate_ieps", "generate_plan",
                        "clear_iep", "api_key", "query"}
               => ss'.messages = ss.messages ]_vars

\* Clear Documents has run on a session with a conversation of two prompts
\* and a lesson plan
C18_Witness ==
    /\ out.op = "clear_documents"
    /\ Len(ss.messages) = 4
    /\ ss.lesson_plans # <<>>
    /\ ~ss.documents_processed

\* the calls that go to the embedding service or to the chat model
NetworkCalls == {"embed_documents", "embed_query", "similarity_search", "llm_call"}

\* the operations that need the key
KeyedOps ==
    {"initialize_qa_chain", "load_faiss_index", "build_faiss_index",
     "build_faiss_index_with_dspy", "process_uploaded_file"}

\* the operation whose result is o gave nothing: no store, no chain, and
\* for process_uploaded_file an exception or False
GaveNothing(o) ==
    IF o.op = "process_uploaded_file" THEN o.exc \/ o.ret = FALSE ELSE ~o.ret.held

\* C19: without OPENAI_API_KEY the index build, the index load, the chain
\* construction and the pipeline construction fail before any call to a
\* service, and the index persisted before is neither deleted nor changed
C19_NoKeyNoHarm ==
    [][ out'.op \in KeyedOps /\ ~out'.key
            => /\ GaveNothing(out')
               /\ \A i \in DOMAIN out'.trace : out'.trace[i] \notin NetworkCalls
               /\ indexDir.kind = "index" => indexDir' = indexDir ]_vars

(***************************************************************************)
(* The claim on the drivers running at the same time, under SpecConc.      *)
(***************************************************************************)
\* the invocation is between the deletion of INDEX_DIR by its rebuild and
\* the end of its save
InRebuild(p) == inv[p].pc \in {"removed", "made", "saving"}

\* this step is one of q that deletes, makes, writes or loads INDEX_DIR
Touches(q) ==
    /\ inv'[q] # inv[q]
    /\ \/ inv[q].pc \in {"checked", "removed", "made", "saving", "clearing"}
       \/ inv[q].pc = "idle" /\ indexDir' # indexDir
       \/ inv[q].pc = "ensured" /\ inv'[q].pc \in {"loaded", "failed"}

\* C20: while an invocation is between the deletion of INDEX_DIR by its
\* rebuild and the end of its save, no other invocation deletes, makes,
\* writes or loads the location, and no rebuild or Clear Documents fails
\* on what another invocation did to it
C20_ExclusiveRebuild ==
    [][ /\ \A p \in Invocations : InRebuild(p)
               => \A q \in Invocations \ {p} : ~Touches(q)
        /\ \A p \in Sessions : inv'[p].pc # "failed" ]_vars

(***************************************************************************)
(* The claims on the sidebar's upload processing, checked under SpecBatch. *)
(***************************************************************************)
\* the index of the chain holds a chunk of the document d
Covers(chain, d) ==
    \E j \in DOMAIN chain.entries : chain.entries[j].metadata = d.metadata

\* the last run of the script processed uploads and every call of
\* process_uploaded_file returned True
BatchSucceeded ==
    /\ out.op = "upload"
    /\ out.calls # <<>>
    /\ \A i \in DOMAIN out.calls : ~out.calls[i].exc /\ out.calls[i].ret

\* C21: after a batch of uploaded files has been processed, the index of
\* the session's chain covers every document of st.session_state
\* ['documents'], not only those of the file processed last
C21_ChainCoversSessionDocuments ==
    BatchSucceeded /\ ss.chain.held
        => \A i \in DOMAIN ss.documents : Covers(ss.chain, ss.documents[i])

(***************************************************************************)
(* The claims on the rebuild of the index by the drivers, under Spec.      *)
(***************************************************************************)
\* this step is a rebuild by one of the drivers: initialize_qa_chain with
\* rebuild_index, or process_uploaded_file
RebuildStep ==
    \/ out'.op = "initialize_qa_chain" /\ out'.rebuild_index
    \/ out'.op = "process_uploaded_file"

\* this step wrote no index
NothingSaved == \A i \in DOMAIN out'.trace : out'.trace[i] # "save_local"

\* C22: a rebuild that produces no new index (the loader returns no
\* documents, the DSPy set-up fails or the embedding fails) leaves the
\* index persisted before as it was on disk, in both drivers
C22_FailedRebuildKeepsIndex ==
    [][ RebuildStep /\ indexDir.kind = "index" /\ NothingSaved
            => indexDir' = indexDir ]_vars

(***************************************************************************)
(* More claims on the sidebar's upload processing, under SpecBatch.        *)
(***************************************************************************)
\* the last run of the script showed this in the sidebar
Shown(x) == \E i \in DOMAIN out.trace : out.trace[i] = x

\* every call of process_uploaded_file of the last run returned True
EveryFileSucceeded ==
    \A i \in DOMAIN out.calls : ~out.calls[i].exc /\ out.calls[i].ret

\* C23: after a batch, documents_processed is set and 'All documents
\* processed successfully!' shown only if every file of the batch was
\* processed successfully; if a file failed the flag stays False and
\* 'Error processing some documents.' is shown; so documents_processed
\* implies that the session holds a chain
C23_ProcessedOnlyIfAllSucceeded ==
    /\ out.op = "upload" /\ out.calls # <<>>
           => IF EveryFileSucceeded
              THEN ss.documents_processed
                   /\ Shown("success:All documents processed successfully!")
              ELSE ~ss.documents_processed
                   /\ Shown("error:Error processing some documents.")
    /\ ss.documents_processed => ss.chain.held

\* C24: whenever the session holds a chain, the index persisted at
\* INDEX_DIR is the index that chain was built from, also after processing
\* steps that fail once the directory is deleted or the new index saved
C24_ChainMatchesPersistedIndex ==
    ss.chain.held
        => indexDir.kind = "index" /\ indexDir.entries = ss.chain.entries

(***************************************************************************)
(* The claim on the chat model while the driver becomes ready, under Spec. *)
(***************************************************************************)
\* the operations by which a driver becomes ready
ReadyOps == {"initialize_qa_chain", "process_uploaded_file"}

\* C25: the chat model is called only to answer a query of the user:
\* loading or building the index and constructing the chain call it not,
\* so once the index is there and the chat model is configured the driver
\* holds a chain, whatever the chat model answers
C25_NoLlmCallBeforeReady ==
    out.op \in ReadyOps
        => /\ ~InTrace("llm_call")
           /\ out.op = "process_uploaded_file" /\ InTrace("ChatOpenAI") /\ out.key
                  => ~out.exc /\ out.ret = TRUE

(***************************************************************************)
(* The claims on the sidebar and the chat of the session, under SpecUI.    *)
(***************************************************************************)
\* C26: while documents_processed is True the uploaded files trigger no
\* processing: no call of process_uploaded_file (no document load, no
\* deletion of INDEX_DIR, no build), and the chain, the documents and the
\* flag of the session stay as they are; only Clear Documents ends this
C26_NoProcessingWhileProcessed ==
    [][ ss.documents_processed /\ out'.op # "clear_documents"
            => /\ out'.calls = <<>>
               /\ indexDir' = indexDir
               /\ ss'.chain = ss.chain
               /\ ss'.documents = ss.documents
               /\ ss'.documents_processed ]_vars

\* the files in the uploader were changed while documents_processed was
\* True: the uploader holds more files than the session has documents
C26_Witness ==
    /\ out.op = "upload"
    /\ out.calls = <<>>
    /\ ss.documents_processed
    /\ ss.chain.held
    /\ Len(widgets.uploaded_files) > Len(ss.documents)

\* C27: Clear Documents returns the session to the state without an
\* index: afterwards documents_processed is False, chain is None,
\* documents and iep_results are empty and INDEX_DIR does not exist;
\* messages and lesson_plans are as before; the button is there only
\* while documents_processed is True
C27_ClearDocumentsResets ==
    [][ out'.op = "clear_documents"
            => /\ ss.documents_processed
               /\ ~ss'.documents_processed
               /\ ~ss'.chain.held
               /\ ss'.documents = <<>>
               /\ ss'.iep_results = <<>>
               /\ ~indexDir'.exists
               /\ ss'.messages = ss.messages
               /\ ss'.lesson_plans = ss.lesson_plans ]_vars

\* the conversation has an even number of turns, by the user and the
\* assistant in turn, the user first
Alternates(messages) ==
    /\ Len(messages) % 2 = 0
    /\ \A i \in DOMAIN messages :
           messages[i].role = IF i % 2 = 1 THEN "user" ELSE "assistant"

\* the run of this step ended in the Q&A tab, before the chat tab
StoppedBeforeChat == \E i \in DOMAIN out'.trace : out'.trace[i] = "qa:TypeError"

\* C28: in the chat tab an accepted prompt appends exactly two turns, the
\* prompt of the user and then one turn of the assistant (the answer, or
\* the error text), and a rejected prompt appends none; so the
\* conversation always has an even number of turns that alternate user,
\* assistant
C28_ChatAppendsTwoTurns ==
    [][ /\ out'.op = "chat"
               => IF ss.documents_processed /\ ~StoppedBeforeChat
                  THEN \E content \in {"answer", "Error generating response"} :
                           ss'.messages = ss.messages
                               \o <<Message("user", "q"), Message("assistant", content)>>
                  ELSE ss'.messages = ss.messages
        /\ Alternates(ss'.messages) ]_vars

\* two prompts were accepted: the first was answered, the second failed
C28_Witness ==
    /\ out.op = "chat"
    /\ Len(ss.messages) = 4
    /\ ss.messages[2].content = "answer"
    /\ ss.messages[4].content = "Error generating response"
    /\ ss.chain.held

(***************************************************************************)
(* The claim on clean_text applied twice, checked under SpecClean.         *)
(***************************************************************************)
\* C29: clean_text is idempotent: cleaning a cleaned text gives it back
C29_CleanTextIdempotent ==
    out.op = "clean_text" => clean_text(out.ret) = out.ret

(***************************************************************************)
(* The claim on the build with DSPy, checked under Spec.                   *)
(***************************************************************************)
\* the operations that build the index through build_faiss_index_with_dspy
DspyBuilt ==
    \/ out.op = "build_faiss_index_with_dspy"
    \/ out.op = "initialize_qa_chain" /\ out.use_dspy /\ InTrace("IEPPipeline")

\* the number of times build_faiss_index ran in the last operation: each
\* run starts with the split
BuildsRun == Cardinality({i \in DOMAIN out.trace : out.trace[i] = "split"})

\* the persisted index holds no chunk twice
NoChunkTwice ==
    \A j, k \in DOMAIN indexDir.entries :
        indexDir.entries[j] = indexDir.entries[k] => j = k

\* C30: in the build with DSPy every loaded document's original content
\* goes to the index build exactly once, whether its enhancement succeeds
\* or fails: the index holds no chunk twice, and the build is attempted at
\* most once in a call
C30_DspyBuildsOnce ==
    DspyBuilt => BuildsRun <= 1 /\ NoChunkTwice

====
